---- MODULE Spec2Model ----
(***************************************************************************)
(* A model of the CGEL parser's test helpers (tests/helpers.ts), custom    *)
(* matchers (tests/matchers.ts) and playground parse entry point.          *)
(*                                                                         *)
(* Strings the code splits, lower-cases or converts to numbers are         *)
(* sequences of one-character strings; category tags (`kind`) are only     *)
(* ever compared with ===, so they are plain strings.                      *)
(***************************************************************************)
EXTENDS Integers, Sequences, FiniteSets, TLC

VARIABLES
    tree,       \* the TreeNode handed to the tree-query helpers
    call,       \* the helper call in progress: its name and arguments
    ret,        \* what the call returned
    pc,         \* "idle": no call made; "done": call has returned
    sentence,   \* the sentence given to the last parse call
    parser,     \* the nearley Parser object most recently created
    outcome,    \* how the last parse call ended: returned trees or raised
    ppc,        \* which entry point ended last: "idle", "parse",
                \* "parseEnglish", "matchersParse", "matcher", "syntaxTree"
                \* or the name of a handler of the playground's sidebar
    probe,      \* history of the calls parse(ProbeSentence): "none", "once",
                \* "between" (another sentence parsed since), "twice"
    probeOutcome, \* what the first call parse(ProbeSentence) returned
    filters,    \* the filters argument of the last matchers.parse call
    received,   \* the ParseResult the last matchers.parse call returned
    matcher,    \* the last matcher call on `received` and its `pass`
    output,     \* the playground's `output` state (the parse results)
    showNulls,  \* the playground's `showNulls` state (the checkbox)
    rendered,   \* what the playground draws: one pruned tree, or Null for
                \* "Empty tree", per tree of `output`
    task,       \* the running test's task (this.task) and its meta
    todo,       \* matcher calls the running test body has still to make
    input,      \* the playground's `input` state (the textarea's text)
    sentences,  \* the playground's `sentences` state (the sidebar list)
    initialSentences, \* the list getSentencesFromTests gave at mount
    dragItem    \* the drag in progress: the item object of useDrag

queryVars == <<tree, call, ret, pc>>
parseVars == <<sentence, parser, outcome, ppc, probe, probeOutcome>>
matchVars == <<filters, received, matcher, output, showNulls, rendered, task, todo>>
listVars == <<input, sentences, initialSentences, dragItem>>
vars == <<tree, call, ret, pc, sentence, parser, outcome, ppc, probe, probeOutcome,
          filters, received, matcher, output, showNulls, rendered, task, todo,
          input, sentences, initialSentences, dragItem>>

(***************************************************************************)
(* JavaScript string primitives used by helpers.ts                         *)
(***************************************************************************)
UpperSeq == <<"A","B","C","D","E","F","G","H","I","J","K","L","M",
              "N","O","P","Q","R","S","T","U","V","W","X","Y","Z">>
LowerSeq == <<"a","b","c","d","e","f","g","h","i","j","k","l","m",
              "n","o","p","q","r","s","t","u","v","w","x","y","z">>
DigitSeq == <<"0","1","2","3","4","5","6","7","8","9">>

\* String.prototype.toLowerCase on one character
toLowerChar(c) ==
    IF \E i \in 1..Len(UpperSeq) : UpperSeq[i] = c
    THEN LowerSeq[CHOOSE i \in 1..Len(UpperSeq) : UpperSeq[i] = c]
    ELSE c

\* String.prototype.toLowerCase
toLowerCase(s) == [i \in 1..Len(s) |-> toLowerChar(s[i])]

RECURSIVE splitAcc(_, _, _, _, _)
splitAcc(s, sep, i, cur, acc) ==
    IF i > Len(s) THEN Append(acc, cur)
    ELSE IF s[i] = sep THEN splitAcc(s, sep, i + 1, << >>, Append(acc, cur))
    ELSE splitAcc(s, sep, i + 1, Append(cur, s[i]), acc)

\* String.prototype.split with a one-character separator
split(s, sep) == splitAcc(s, sep, 1, << >>, << >>)

isDigit(c) == \E i \in 1..Len(DigitSeq) : DigitSeq[i] = c
digitVal(c) == (CHOOSE i \in 1..Len(DigitSeq) : DigitSeq[i] = c) - 1

NaN == [nan |-> TRUE, val |-> 0]
Num(n) == [nan |-> FALSE, val |-> n]

RECURSIVE digitsAcc(_, _, _, _)
\* value of the longest run of decimal digits of s starting at i; NaN if empty
digitsAcc(s, i, seen, acc) ==
    IF i <= Len(s) /\ isDigit(s[i])
    THEN digitsAcc(s, i + 1, TRUE, 10 * acc + digitVal(s[i]))
    ELSE IF seen THEN Num(acc) ELSE NaN

RECURSIVE skipSpaces(_, _)
skipSpaces(s, i) == IF i <= Len(s) /\ s[i] = " " THEN skipSpaces(s, i + 1) ELSE i

\* parseInt(s, 10): leading blanks, an optional sign, then the digit prefix
parseInt(s) ==
    LET i == skipSpaces(s, 1)
        signed == i <= Len(s) /\ s[i] \in {"+", "-"}
        d == digitsAcc(s, IF signed THEN i + 1 ELSE i, FALSE, 0)
    IN  IF d.nan THEN NaN
        ELSE IF signed /\ s[i] = "-" THEN Num(0 - d.val) ELSE d

(***************************************************************************)
(* TreeNode = { kind: string; children: TreeNode[] | string | null }       *)
(* ctype says which of the three `children` is: "string" (a terminal       *)
(* word), "list" (child nodes, possibly none) or "null".                   *)
(***************************************************************************)
WordNode(k, w) == [kind |-> k, ctype |-> "string", word |-> w,     kids |-> << >>]
NullNode(k)    == [kind |-> k, ctype |-> "null",   word |-> << >>, kids |-> << >>]
ListNode(k, c) == [kind |-> k, ctype |-> "list",   word |-> << >>, kids |-> c]

(***************************************************************************)
(* A node object is identified by its address: the child indices leading   *)
(* to it from the root (<< >> is the root). The helpers compare nodes with *)
(* === (object identity); in a tree every node object occurs once, so      *)
(* identity of objects is identity of addresses.                           *)
(***************************************************************************)
NoNode == << 0 >>      \* `null` where a TreeNode is expected

\* parseWordRef
parseWordRef(ref) ==
    LET parts == split(ref, ":")
    IN  IF Len(parts) = 2
        THEN [word |-> toLowerCase(parts[1]), hasIndex |-> TRUE,
              index |-> parseInt(parts[2])]
        ELSE [word |-> toLowerCase(ref), hasIndex |-> FALSE, index |-> NaN]

RECURSIVE traverse(_, _, _)
RECURSIVE traverseKids(_, _, _, _)
\* the inner function `traverse` of findLeaves: the leaves pushed to
\* `results` while visiting n, in push order
traverse(n, addr, path) ==
    LET currentPath == Append(path, addr)
    IN  IF n.ctype = "string"
        THEN << [word |-> toLowerCase(n.word), path |-> currentPath] >>
        ELSE IF n.ctype = "list"
        THEN traverseKids(n, addr, currentPath, 1)
        ELSE << >>

\* the for-of loop over n.children, from child i on
traverseKids(n, addr, currentPath, i) ==
    IF i > Len(n.kids) THEN << >>
    ELSE traverse(n.kids[i], Append(addr, i), currentPath)
         \o traverseKids(n, addr, currentPath, i + 1)

\* findLeaves
findLeaves(node) == traverse(node, << >>, << >>)

\* mutant of treeAfterFindLeaves: the traversal lower-cases each word in place
RECURSIVE treeAfterFindLeaves_lowerCasesInPlace(_)
treeAfterFindLeaves_lowerCasesInPlace(node) ==
    IF node.ctype = "string" THEN [node EXCEPT !.word = toLowerCase(node.word)]
    ELSE IF node.ctype = "list"
    THEN [node EXCEPT !.kids = [i \in 1..Len(node.kids) |->
                                  treeAfterFindLeaves_lowerCasesInPlace(node.kids[i])]]
    ELSE node

\* the TreeNode objects after findLeaves has run on them: traverse reads
\* node.children and writes only to its own `leaves` and path arrays
\* ([...path, node] is a new array), so every node is as it was
treeAfterFindLeaves(node) == node

RECURSIVE findLCAFrom(_, _, _, _)
\* the loop of findLCA from index i (1-based here) with the current lca
findLCAFrom(path1, path2, i, lca) ==
    LET minLen == IF Len(path1) < Len(path2) THEN Len(path1) ELSE Len(path2)
    IN  IF i > minLen THEN lca
        ELSE IF path1[i] = path2[i] THEN findLCAFrom(path1, path2, i + 1, path1[i])
        ELSE lca

\* mutant of findLCA: the first common node (the root) instead of the last
findLCA_first(path1, path2) ==
    IF Len(path1) > 0 /\ Len(path2) > 0 /\ path1[1] = path2[1] THEN path1[1] ELSE NoNode

\* findLCA
findLCA(path1, path2) == findLCAFrom(path1, path2, 1, NoNode)

\* isAncestorInPath
isAncestorInPath(ancestor, path) == \E i \in 1..Len(path) : path[i] = ancestor

\* mutant of occurrenceIndex: occurrences counted from 1
occurrenceIndex_oneBased(leaves, i, word) ==
    Len(SelectSeq(SubSeq(leaves, 1, i + 1), LAMBDA x : x.word = word))

\* leaves.slice(0, i + 1).filter(x => x.word === word).length - 1, i 0-based
occurrenceIndex(leaves, i, word) ==
    Len(SelectSeq(SubSeq(leaves, 1, i + 1), LAMBDA x : x.word = word)) - 1

\* mutant of leafMatches: an indexed reference picks the leaf at that index
\* among all leaves, whatever its word
leafMatches_indexAmongAllLeaves(leaves, i, w) ==
    IF w.hasIndex
    THEN ~w.index.nan /\ i = w.index.val
    ELSE leaves[i + 1].word = w.word

\* the predicate given to leaves.filter, for the leaf at 0-based index i
leafMatches(leaves, i, w) ==
    /\ leaves[i + 1].word = w.word
    /\ \/ ~w.hasIndex
       \/ /\ ~w.index.nan
          /\ occurrenceIndex(leaves, i, w.word) = w.index.val

RECURSIVE filterLeavesFrom(_, _, _)
filterLeavesFrom(leaves, w, i) ==
    IF i >= Len(leaves) THEN << >>
    ELSE (IF leafMatches(leaves, i, w) THEN << leaves[i + 1] >> ELSE << >>)
         \o filterLeavesFrom(leaves, w, i + 1)

\* leaves.filter((l, i) => ...) of checkConstituency and checkPartOfSpeech
filterLeaves(leaves, w) == filterLeavesFrom(leaves, w, 0)

\* mutant of checkConstituency: the early return forgets the excluded word
checkConstituency_noExcludesGuard(t, word1Ref, word2Ref, excludesRef) ==
    LET leaves == findLeaves(t)
        word1Leaves == filterLeaves(leaves, parseWordRef(word1Ref))
        word2Leaves == filterLeaves(leaves, parseWordRef(word2Ref))
        excludesLeaves == filterLeaves(leaves, parseWordRef(excludesRef))
    IN  IF Len(word1Leaves) = 0 \/ Len(word2Leaves) = 0
        THEN FALSE
        ELSE \E a \in 1..Len(word1Leaves) : \E b \in 1..Len(word2Leaves) :
                LET lca == findLCA(word1Leaves[a].path, word2Leaves[b].path)
                IN  /\ lca # NoNode
                    /\ \A e \in 1..Len(excludesLeaves) :
                          ~isAncestorInPath(lca, excludesLeaves[e].path)

\* mutant of checkConstituency: only the first leaf of word1 is paired
checkConstituency_firstWord1LeafOnly(t, word1Ref, word2Ref, excludesRef) ==
    LET leaves == findLeaves(t)
        word1Leaves == filterLeaves(leaves, parseWordRef(word1Ref))
        word2Leaves == filterLeaves(leaves, parseWordRef(word2Ref))
        excludesLeaves == filterLeaves(leaves, parseWordRef(excludesRef))
    IN  IF Len(word1Leaves) = 0 \/ Len(word2Leaves) = 0 \/ Len(excludesLeaves) = 0
        THEN FALSE
        ELSE \E a \in {1} : \E b \in 1..Len(word2Leaves) :
                LET lca == findLCA(word1Leaves[a].path, word2Leaves[b].path)
                IN  /\ lca # NoNode
                    /\ \A e \in 1..Len(excludesLeaves) :
                          ~isAncestorInPath(lca, excludesLeaves[e].path)

\* checkConstituency
checkConstituency(t, word1Ref, word2Ref, excludesRef) ==
    LET leaves == findLeaves(t)
        word1Leaves == filterLeaves(leaves, parseWordRef(word1Ref))
        word2Leaves == filterLeaves(leaves, parseWordRef(word2Ref))
        excludesLeaves == filterLeaves(leaves, parseWordRef(excludesRef))
    IN  IF Len(word1Leaves) = 0 \/ Len(word2Leaves) = 0 \/ Len(excludesLeaves) = 0
        THEN FALSE
        ELSE \E a \in 1..Len(word1Leaves) : \E b \in 1..Len(word2Leaves) :
                LET lca == findLCA(word1Leaves[a].path, word2Leaves[b].path)
                IN  /\ lca # NoNode
                    /\ \A e \in 1..Len(excludesLeaves) :
                          ~isAncestorInPath(lca, excludesLeaves[e].path)

\* the TreeNode object at an address (what a path entry refers to)
RECURSIVE nodeAt(_, _)
nodeAt(t, addr) ==
    IF addr = << >> THEN t ELSE nodeAt(t.kids[Head(addr)], Tail(addr))

\* mutant of checkPartOfSpeech: every ancestor on the path is consulted
checkPartOfSpeech_anyAncestor(t, wordRef, expectedPOS) ==
    LET leaves == findLeaves(t)
        matchingLeaves == filterLeaves(leaves, parseWordRef(wordRef))
    IN  \E m \in 1..Len(matchingLeaves) :
            \E j \in 1..Len(matchingLeaves[m].path) :
                nodeAt(t, matchingLeaves[m].path[j]).kind = expectedPOS

\* checkPartOfSpeech
checkPartOfSpeech(t, wordRef, expectedPOS) ==
    LET leaves == findLeaves(t)
        matchingLeaves == filterLeaves(leaves, parseWordRef(wordRef))
    IN  \E m \in 1..Len(matchingLeaves) :
            LET path == matchingLeaves[m].path
                leafNode == nodeAt(t, path[Len(path)])
            IN  \/ leafNode.kind = expectedPOS
                \/ /\ Len(path) >= 2
                   /\ nodeAt(t, path[Len(path) - 1]).kind = expectedPOS

(***************************************************************************)
(* The lexicon, the lexer and the compiled grammar. english.json,          *)
(* englishLexer.ts and englishGrammar.js are not among the source files;   *)
(* they are modelled from the specification (sections 3, 4.2, 4.3) on a    *)
(* small fragment: number agreement, a clause-level and a verb-phrase      *)
(* level adjunct (an ambiguity), an omissible (empty) adjunct, and         *)
(* verb-particle-object frames with full and pronoun objects.              *)
(***************************************************************************)
W_Dogs == << "D", "o", "g", "s" >>
W_dogs == << "d", "o", "g", "s" >>
W_dog  == << "d", "o", "g" >>
W_the  == << "t", "h", "e" >>
W_The  == << "T", "h", "e" >>
W_ran  == << "r", "a", "n" >>
W_runs == << "r", "u", "n", "s" >>
W_fast == << "f", "a", "s", "t" >>
W_zzz  == << "z", "z", "z" >>
W_took == << "t", "o", "o", "k" >>
W_off  == << "o", "f", "f" >>
W_it   == << "i", "t" >>
W_carried == << "c", "a", "r", "r", "i", "e", "d" >>
W_out  == << "o", "u", "t" >>

\* english.json: lower-case surface word -> category tags
LexiconWords == { W_dogs, W_dog, W_the, W_ran, W_runs, W_fast,
                  W_took, W_off, W_it, W_carried, W_out }
Lexicon(w) ==
    IF w = W_the THEN { "det" }
    ELSE IF w = W_dog THEN { "n_sg" }
    ELSE IF w = W_dogs THEN { "n_pl" }
    ELSE IF w = W_ran THEN { "v_past" }
    ELSE IF w = W_runs THEN { "v_3sg", "n_pl" }
    ELSE IF w = W_fast THEN { "adv" }
    ELSE IF w = W_took THEN { "v_take" }
    ELSE IF w = W_off THEN { "prt_off" }
    ELSE IF w = W_carried THEN { "v_carry" }
    ELSE IF w = W_out THEN { "prt_out" }
    ELSE IF w = W_it THEN { "pron" }
    ELSE { }

\* lex: one token per word, carrying the surface form and the tags the
\* lexicon gives its lower-cased form; an unknown word gets no tag
lex(words) ==
    [i \in 1..Len(words) |->
        [text |-> words[i], tags |-> Lexicon(toLowerCase(words[i]))]]

T(tag) == [term |-> TRUE, name |-> tag]
NT(n)  == [term |-> FALSE, name |-> n]

\* englishGrammar.js: ParserRules and ParserStart
ParserStart == "S"

\* clause, noun phrase, verb phrase and adjunct rules
ClauseRules == <<
    [name |-> "S",       symbols |-> << NT("NP_sg"), NT("VP_sg"), NT("Adjunct") >>],
    [name |-> "S",       symbols |-> << NT("NP_pl"), NT("VP_pl"), NT("Adjunct") >>],
    [name |-> "NP_sg",   symbols |-> << T("det"), T("n_sg") >>],
    [name |-> "NP_pl",   symbols |-> << T("det"), T("n_pl") >>],
    [name |-> "NP_pl",   symbols |-> << T("n_pl") >>],
    [name |-> "VP_sg",   symbols |-> << NT("V_sg") >>],
    [name |-> "VP_sg",   symbols |-> << NT("V_sg"), T("adv") >>],
    [name |-> "VP_pl",   symbols |-> << NT("V_pl") >>],
    [name |-> "VP_pl",   symbols |-> << NT("V_pl"), T("adv") >>],
    [name |-> "Adjunct", symbols |-> << T("adv") >>],
    [name |-> "Adjunct", symbols |-> << >>] >>

\* mutant of VerbRules: a third-person-singular form also heads a plural
\* verb phrase
VerbRules_noAgreement == <<
    [name |-> "V_sg",    symbols |-> << T("v_3sg") >>],
    [name |-> "V_sg",    symbols |-> << T("v_past") >>],
    [name |-> "V_pl",    symbols |-> << T("v_3sg") >>],
    [name |-> "V_pl",    symbols |-> << T("v_past") >>] >>

\* the inflectional variants of the verb by agreement: a third-person
\* singular present form only with a singular subject
VerbRules == <<
    [name |-> "V_sg",    symbols |-> << T("v_3sg") >>],
    [name |-> "V_sg",    symbols |-> << T("v_past") >>],
    [name |-> "V_pl",    symbols |-> << T("v_past") >>] >>

\* mutant of ObjectRules: a pronoun is a full noun phrase object
ObjectRules_pronounIsFullObject == <<
    [name |-> "NP_obj",  symbols |-> << NT("NP_sg") >>],
    [name |-> "NP_obj",  symbols |-> << NT("NP_pl") >>],
    [name |-> "NP_obj",  symbols |-> << T("pron") >>],
    [name |-> "Obj",     symbols |-> << NT("NP_obj") >>] >>

\* objects: a full noun phrase (NP_obj), or any object, which may also be an
\* unstressed pronoun (Obj)
ObjectRules == <<
    [name |-> "NP_obj",  symbols |-> << NT("NP_sg") >>],
    [name |-> "NP_obj",  symbols |-> << NT("NP_pl") >>],
    [name |-> "Obj",     symbols |-> << NT("NP_obj") >>],
    [name |-> "Obj",     symbols |-> << T("pron") >>] >>

\* verb-particle-object frames: the verb's tag, the particle's tag, and the
\* flag "resists particle movement" (a fossilised idiom)
VerbFrames == <<
    [verb |-> "v_take",  particle |-> "prt_off", resistsParticleMovement |-> FALSE],
    [verb |-> "v_carry", particle |-> "prt_out", resistsParticleMovement |-> TRUE] >>

\* the two rule skeletons of a frame, for a verb phrase of either number
particleFirstRules(f) == <<
    [name |-> "VP_sg", symbols |-> << T(f.verb), T(f.particle), NT("NP_obj") >>],
    [name |-> "VP_pl", symbols |-> << T(f.verb), T(f.particle), NT("NP_obj") >>] >>
objectFirstRules(f) == <<
    [name |-> "VP_sg", symbols |-> << T(f.verb), NT("Obj"), T(f.particle) >>],
    [name |-> "VP_pl", symbols |-> << T(f.verb), NT("Obj"), T(f.particle) >>] >>

\* the rules emitted for a frame. The tests of verb-particle constructions
\* require both orders to parse for the unflagged verbs ("took off the
\* label", "took the label off") and for the fossilised idioms as well ("He
\* carried out his threat.", "He carried his threat out."), so both
\* skeletons are emitted whatever the flag.
frameRules(f) == particleFirstRules(f) \o objectFirstRules(f)

RECURSIVE FrameRulesFrom(_)
FrameRulesFrom(i) ==
    IF i > Len(VerbFrames) THEN << >>
    ELSE frameRules(VerbFrames[i]) \o FrameRulesFrom(i + 1)

ParserRules == ClauseRules \o VerbRules \o ObjectRules \o FrameRulesFrom(1)

\* the rule's postprocessor: the TreeNode built from the children's data
postprocess(r, data) ==
    IF Len(ParserRules[r].symbols) = 0 THEN NullNode(ParserRules[r].name)
    ELSE ListNode(ParserRules[r].name, data)

\* the data of a scanned token: a leaf labelled with the matched tag
tokenNode(tag, token) == WordNode(tag, token.text)

(***************************************************************************)
(* nearley.Parser (the library the repository calls): an Earley chart. A   *)
(* state is a rule with a dot, the column it started in (reference) and    *)
(* the data of the symbols before the dot. table[i + 1] is column i.       *)
(***************************************************************************)
State(r, dot, ref, data) == [data |-> data, dot |-> dot, rule |-> r, reference |-> ref]
isComplete(st) == st.dot = Len(ParserRules[st.rule].symbols)
nextSymbol(st) == ParserRules[st.rule].symbols[st.dot + 1]
nextState(st, child) == State(st.rule, st.dot + 1, st.reference, Append(st.data, child))

\* Column.predict: the rules of every nonterminal some state of the column wants
predicted(states, k) ==
    { State(r, 0, k, << >>) :
        r \in { r \in 1..Len(ParserRules) :
                  \E st \in states :
                      /\ ~isComplete(st)
                      /\ ~nextSymbol(st).term
                      /\ nextSymbol(st).name = ParserRules[r].name } }

\* Column.complete: every finished state advances the states that wanted it
completed(states, k, table) ==
    UNION { { nextState(w, postprocess(st.rule, st.data)) :
                w \in { w \in (IF st.reference = k THEN states
                              ELSE table[st.reference + 1]) :
                          /\ ~isComplete(w)
                          /\ ~nextSymbol(w).term
                          /\ nextSymbol(w).name = ParserRules[st.rule].name } }
            : st \in { st \in states : isComplete(st) } }

RECURSIVE process(_, _, _)
\* Column.process: predict and complete until nothing new is added
process(states, k, table) ==
    LET more == states \cup predicted(states, k) \cup completed(states, k, table)
    IN  IF more = states THEN states ELSE process(more, k, table)

\* new nearley.Parser(nearley.Grammar.fromCompiled(grammar)): column 0
\* predicts the start symbol
newParser ==
    [table |-> << process({ State(r, 0, 0, << >>) :
                              r \in { r \in 1..Len(ParserRules) :
                                        ParserRules[r].name = ParserStart } },
                          0, << >>) >>,
     current |-> 0, results |-> << >>, error |-> FALSE]

\* the scan step of Parser.feed for one token: the states of the current
\* column that expect a terminal the token passes, advanced over it
scanned(column, token) ==
    { nextState(st, tokenNode(nextSymbol(st).name, token)) :
        st \in { st \in column :
                   /\ ~isComplete(st)
                   /\ nextSymbol(st).term
                   /\ nextSymbol(st).name \in token.tags } }

\* a fixed enumeration of a finite set (the order of parser.results)
RECURSIVE SetToSeq(_)
SetToSeq(S) ==
    IF S = { } THEN << >>
    ELSE LET x == CHOOSE x \in S : TRUE IN << x >> \o SetToSeq(S \ { x })

\* Parser.finish: the data of the finished start-symbol states that span
\* the whole input
finish(p) ==
    SetToSeq({ postprocess(st.rule, st.data) :
                 st \in { st \in p.table[Len(p.table)] :
                            /\ ParserRules[st.rule].name = ParserStart
                            /\ isComplete(st)
                            /\ st.reference = 0 } })

RECURSIVE feedFrom(_, _, _)
\* the token loop of Parser.feed from token i on: an empty next column
\* makes feed throw (error); otherwise results is set at the end
feedFrom(p, tokens, i) ==
    IF i > Len(tokens) THEN [p EXCEPT !.results = finish(p)]
    ELSE LET n == p.current + 1
             nextColumn == process(scanned(p.table[p.current + 1], tokens[i]),
                                   n, p.table)
         IN  IF nextColumn = { }
             THEN [p EXCEPT !.table = Append(p.table, nextColumn), !.error = TRUE]
             ELSE feedFrom([p EXCEPT !.table = Append(p.table, nextColumn),
                                     !.current = n],
                           tokens, i + 1)

\* Parser.feed
feed(p, tokens) == feedFrom(p, tokens, 1)

(***************************************************************************)
(* helpers.parse and the playground's parseEnglish                         *)
(***************************************************************************)
\* error.message of the Error nearley's feed throws, and of the TypeError
\* thrown when a method is called on undefined
SyntaxErrorMessage == "Syntax error: unexpected token"
TypeErrorMessage == "Cannot read properties of undefined (reading 'split')"
NoMessage == ""

Returned(trees) == [trees |-> trees, raised |-> FALSE, message |-> NoMessage]
Raised == [trees |-> << >>, raised |-> TRUE, message |-> SyntaxErrorMessage]

\* A Parser object as the state keeps it between calls: the words whose
\* tokens it has been fed (its chart is a function of them), its position,
\* and whether feed threw.
NoParser == [current |-> 0, error |-> FALSE, fed |-> << >>]
ParserObject(fed, p) == [current |-> p.current, error |-> p.error, fed |-> fed]

\* mutant of parse: one module-level Parser is fed by every call
parse_sharedParser(old, s) ==
    LET p == feed(newParser, lex(old.fed \o s))
    IN  [parser |-> ParserObject(old.fed \o s, p),
         outcome |-> IF p.error THEN Raised ELSE Returned(p.results)]

\* mutant of parse: the first token is not fed
parse_skipsFirstToken(old, s) ==
    LET p == feed(newParser, IF lex(s) = << >> THEN << >> ELSE Tail(lex(s)))
    IN  [parser |-> ParserObject(s, p),
         outcome |-> IF p.error THEN Raised ELSE Returned(p.results)]

\* helpers.parse: a new Parser is fed the tokens of the sentence; the call
\* returns parser.results, or lets the error thrown by feed escape.
\* `old` is the Parser of the call before, `parser` the one this call built.
parse(old, s) ==
    LET p == feed(newParser, lex(s))
    IN  [parser |-> ParserObject(s, p),
         outcome |-> IF p.error THEN Raised ELSE Returned(p.results)]

\* parseEnglish (playground): the same, with every error caught and
\* turned into an empty list
parseEnglish(old, s) ==
    LET p == feed(newParser, lex(s))
    IN  [parser |-> ParserObject(s, p),
         outcome |-> IF p.error THEN Raised ELSE Returned(p.results),
         value |-> IF p.error THEN << >> ELSE p.results]

(***************************************************************************)
(* matchers.ts: parse with filters, and the three custom matchers          *)
(***************************************************************************)
\* a ConstituentTest { in: [a, b], out: c }
ConstituentTest(a, b, c) ==
    [in |-> << a, b >>, word |-> << >>, hasIn |-> TRUE, hasOut |-> TRUE,
     hasWord |-> FALSE, hasPos |-> FALSE, out |-> c, pos |-> ""]
\* a HasPOSTest { word, pos }
HasPOSTest(w, pos) ==
    [in |-> << << >>, << >> >>, word |-> w, hasIn |-> FALSE, hasOut |-> FALSE,
     hasWord |-> TRUE, hasPos |-> TRUE, out |-> << >>, pos |-> pos]

isConstituentTest(filter) == filter.hasIn /\ filter.hasOut
isHasPOSTest(filter) == filter.hasWord /\ filter.hasPos

\* the callback of filters.every for one tree and one filter
filterAccepts(t, filter) ==
    IF isConstituentTest(filter)
    THEN checkConstituency(t, filter.in[1], filter.in[2], filter.out)
    ELSE IF isHasPOSTest(filter)
    THEN checkPartOfSpeech(t, filter.word, filter.pos)
    ELSE TRUE

\* mutant of treePassesFilters: some filter instead of every filter
treePassesFilters_some(t, fs) == \E i \in 1..Len(fs) : filterAccepts(t, fs[i])

\* filters.every(filter => ...)
treePassesFilters(t, fs) == \A i \in 1..Len(fs) : filterAccepts(t, fs[i])

\* trees.filter(tree => filters.every(...))
filterTrees(trees, fs) == SelectSeq(trees, LAMBDA t : treePassesFilters(t, fs))

\* the value a missing array element or property has; no string equals it
Undefined == << "undefined" >>

\* parseWordRef(undefined): ref.split throws a TypeError
parseWordRefThrows(ref) == ref = Undefined

\* the callback throws for this filter: checkConstituency and
\* checkPartOfSpeech hand each word reference to parseWordRef
filterThrows(filter) ==
    IF isConstituentTest(filter)
    THEN \/ parseWordRefThrows(filter.in[1])
         \/ parseWordRefThrows(filter.in[2])
         \/ parseWordRefThrows(filter.out)
    ELSE IF isHasPOSTest(filter)
    THEN parseWordRefThrows(filter.word)
    ELSE FALSE

\* filters.every reaches a throwing filter for this tree: every filter
\* before it returned true
treeFiltersThrow(t, fs) ==
    \E i \in 1..Len(fs) :
        /\ filterThrows(fs[i])
        /\ \A j \in 1..(i - 1) : ~filterThrows(fs[j]) /\ filterAccepts(t, fs[j])

\* trees.filter throws: the callback throws for some tree
filterTreesThrows(trees, fs) == \E k \in 1..Len(trees) : treeFiltersThrow(trees[k], fs)

NoFilters == [list |-> << >>, given |-> FALSE]     \* filters is undefined
Filters(fs) == [list |-> fs, given |-> TRUE]

\* a ParseResult; hasError tells whether it has the optional `error` field
ParseResult(s, trees, hasError) ==
    [sentence |-> s, error |-> NoMessage, trees |-> trees, hasError |-> hasError]
\* mutant of ErrorResult: the catch branch drops the error message
ErrorResult_withoutError(s, message) ==
    [sentence |-> s, error |-> NoMessage, trees |-> << >>, hasError |-> FALSE]

\* the ParseResult of the catch branch
ErrorResult(s, message) ==
    [sentence |-> s, error |-> message, trees |-> << >>, hasError |-> TRUE]

\* matchers.parse(sentence, filters)
matchersParse(old, s, fl) ==
    LET r == parse(old, s)
    IN  [parser |-> r.parser, outcome |-> r.outcome,
         value |-> IF r.outcome.raised
                   THEN ErrorResult(s, r.outcome.message)
                   ELSE IF fl.given /\ Len(fl.list) > 0
                           /\ filterTreesThrows(r.outcome.trees, fl.list)
                   THEN ErrorResult(s, TypeErrorMessage)
                   ELSE ParseResult(s,
                            IF fl.given /\ Len(fl.list) > 0
                            THEN filterTrees(r.outcome.trees, fl.list)
                            ELSE r.outcome.trees,
                            FALSE)]

\* toBeGrammatical: pass
toBeGrammatical(rcv) == Len(rcv.trees) > 0

\* mutant of toHaveConstituent: every tree instead of some tree
toHaveConstituent_every(rcv, test) ==
    IF Len(rcv.trees) = 0 THEN FALSE
    ELSE \A i \in 1..Len(rcv.trees) :
            checkConstituency(rcv.trees[i], test.in[1], test.in[2], test.out)

\* toHaveConstituent: pass
toHaveConstituent(rcv, test) ==
    IF Len(rcv.trees) = 0 THEN FALSE
    ELSE \E i \in 1..Len(rcv.trees) :
            checkConstituency(rcv.trees[i], test.in[1], test.in[2], test.out)

\* toHavePOS: pass
toHavePOS(rcv, test) ==
    IF Len(rcv.trees) = 0 THEN FALSE
    ELSE \E i \in 1..Len(rcv.trees) :
            checkPartOfSpeech(rcv.trees[i], test.word, test.pos)

\* what expect(...) reports: the assertion holds when pass, or with .not
\* when not pass
assertionHolds(pass, isNot) == IF isNot THEN ~pass ELSE pass

\* task.meta of a test that has recorded nothing yet: an empty object
NoMeta == [sentence |-> << >>, error |-> NoMessage, hasError |-> FALSE,
           hasSentence |-> FALSE, parseCount |-> 0, assertions |-> << >>]

\* a RecordedAssertion { type, passed, details }; noParse is details.error
\* = 'no parse', test holds the matcher's argument as the details repeat it
RecordedAssertion(type, passed, parseCount, noParse, test) ==
    [test |-> test, parseCount |-> parseCount, type |-> type,
     passed |-> passed, noParse |-> noParse]

\* mutant of recordAssertion: the assertions array holds only the last entry
recordAssertion_keepsLastOnly(tk, s, assertion, hasError, error) ==
    IF ~tk.has THEN tk
    ELSE [tk EXCEPT !.meta =
            [sentence |-> s,
             error |-> IF hasError /\ error # NoMessage THEN error ELSE @.error,
             hasError |-> IF hasError /\ error # NoMessage THEN TRUE ELSE @.hasError,
             hasSentence |-> TRUE,
             parseCount |-> assertion.parseCount,
             assertions |-> << assertion >>]]

\* recordAssertion(task, sentence, assertion, error): the task after the call
recordAssertion(tk, s, assertion, hasError, error) ==
    IF ~tk.has THEN tk
    ELSE [tk EXCEPT !.meta =
            [sentence |-> s,
             error |-> IF hasError /\ error # NoMessage THEN error ELSE @.error,
             hasError |-> IF hasError /\ error # NoMessage THEN TRUE ELSE @.hasError,
             hasSentence |-> TRUE,
             parseCount |-> assertion.parseCount,
             assertions |-> Append(@.assertions, assertion)]]

\* the assertion toBeGrammatical records
toBeGrammaticalRecord(rcv, isNot) ==
    RecordedAssertion("grammatical", assertionHolds(toBeGrammatical(rcv), isNot),
                      Len(rcv.trees), FALSE, HasPOSTest(<< >>, ""))

\* the assertion toHaveConstituent records
toHaveConstituentRecord(rcv, test, isNot) ==
    IF Len(rcv.trees) = 0
    THEN RecordedAssertion("constituency", FALSE, 0, TRUE, test)
    ELSE RecordedAssertion("constituency",
                           assertionHolds(toHaveConstituent(rcv, test), isNot),
                           Len(rcv.trees), FALSE, test)

\* the assertion toHavePOS records
toHavePOSRecord(rcv, test, isNot) ==
    IF Len(rcv.trees) = 0
    THEN RecordedAssertion("pos", FALSE, 0, TRUE, test)
    ELSE RecordedAssertion("pos", assertionHolds(toHavePOS(rcv, test), isNot),
                           Len(rcv.trees), FALSE, test)

(***************************************************************************)
(* The playground (App.tsx): pruning of the trees it draws                 *)
(***************************************************************************)
\* the null pruneTree returns
Null == [kind |-> "", ctype |-> "none", word |-> << >>, kids |-> << >>]
NullText == << "<", "n", "u", "l", "l", ">" >>
EmptyListText == << "<", "e", "m", "p", "t", "y", " ", "l", "i", "s", "t", ">" >>

\* mutant of pruneTree: a node left without children is kept as an empty list
RECURSIVE pruneTree_keepsEmptyNodes(_, _)
pruneTree_keepsEmptyNodes(node, nulls) ==
    IF node.ctype = "string" THEN node
    ELSE IF node.ctype = "null"
    THEN (IF nulls THEN WordNode(node.kind, NullText) ELSE Null)
    ELSE LET children ==
                SelectSeq([i \in 1..Len(node.kids) |->
                              pruneTree_keepsEmptyNodes(node.kids[i], nulls)],
                          LAMBDA child : child # Null)
         IN  ListNode(node.kind, children)

\* mutant of pruneTree: with showNulls the placeholders are made only for
\* null children, and a node with an empty list is dropped
RECURSIVE pruneTree_dropsEmptyLists(_, _)
pruneTree_dropsEmptyLists(node, nulls) ==
    IF node.ctype = "string" THEN node
    ELSE IF node.ctype = "null"
    THEN (IF nulls THEN WordNode(node.kind, NullText) ELSE Null)
    ELSE LET children ==
                SelectSeq([i \in 1..Len(node.kids) |->
                              pruneTree_dropsEmptyLists(node.kids[i], nulls)],
                          LAMBDA child : child # Null)
         IN  IF Len(children) = 0 THEN Null
             ELSE ListNode(node.kind, children)

\* pruneTree(node, showNulls)
RECURSIVE pruneTree(_, _)
pruneTree(node, nulls) ==
    IF node.ctype = "string" THEN node
    ELSE IF node.ctype = "null"
    THEN (IF nulls THEN WordNode(node.kind, NullText) ELSE Null)
    ELSE LET children ==
                SelectSeq([i \in 1..Len(node.kids) |-> pruneTree(node.kids[i], nulls)],
                          LAMBDA child : child # Null)
         IN  IF Len(children) = 0
             THEN (IF nulls THEN WordNode(node.kind, EmptyListText) ELSE Null)
             ELSE ListNode(node.kind, children)

\* what the output.map of the render draws: <SyntaxTree> prunes each tree
render(out, nulls) == [i \in 1..Len(out) |-> pruneTree(out[i], nulls)]

\* mutant of outputAfterRender: the trees are pruned in place
outputAfterRender_prunedInPlace(out, nulls) ==
    SelectSeq(render(out, nulls), LAMBDA t : t # Null)

\* the trees of `output` after a render: pruneTree builds new objects
\* ({ kind, children }) or returns a leaf as it is, and assigns to no field
\* of a node it is given
outputAfterRender(out, nulls) == out

(***************************************************************************)
(* Input universes and idle values of the parse specifications             *)
(***************************************************************************)
MaxWords == 3       \* words of a sentence given to parse
MaxFilters == 2     \* filters given to matchers.parse
ParseWords == { W_Dogs, W_ran, W_fast, W_zzz }
RECURSIVE SeqsUpTo(_, _)
SeqsUpTo(S, n) ==
    IF n = 0 THEN { << >> }
    ELSE SeqsUpTo(S, n - 1)
         \cup { Append(q, x) : q \in { q \in SeqsUpTo(S, n - 1) : Len(q) = n - 1 },
                               x \in S }
Sentences == SeqsUpTo(ParseWords, MaxWords)
ProbeSentence == << W_Dogs, W_ran, W_fast >>

\* the sentences and the tests of the matcher specification
MatchWords == { W_Dogs, W_ran, W_fast }
MatchSentences == SeqsUpTo(MatchWords, MaxWords)
ConstituentTests ==
    { ConstituentTest(W_ran, W_fast, W_dogs) }
HasPOSTests ==
    { HasPOSTest(W_fast, "Adjunct"), HasPOSTest(W_ran, "V_pl") }
\* a filter object whose `in` array lacks its second element
MalformedTests == { ConstituentTest(W_ran, Undefined, W_dogs) }
FilterArgs ==
    { NoFilters } \cup { Filters(fs) : fs \in SeqsUpTo(ConstituentTests \cup HasPOSTests
                                                         \cup MalformedTests,
                                                      MaxFilters) }

NoMatcher == [name |-> "none", test |-> HasPOSTest(<< >>, ""), pass |-> FALSE,
              isNot |-> FALSE]

ParseIdle ==
    /\ sentence = << >>
    /\ parser = NoParser
    /\ outcome = Returned(<< >>)
    /\ ppc = "idle"
    /\ probe = "none"
    /\ probeOutcome = Returned(<< >>)

\* no test is running: there is no task, and no matcher call to come
NoTask == [has |-> FALSE, meta |-> NoMeta]
\* a test is running: its task, with nothing recorded yet
NewTask == [has |-> TRUE, meta |-> NoMeta]

\* no drag is in progress
NoDrag == [index |-> 0, active |-> FALSE, id |-> << >>, card |-> 0]

\* the sidebar list is not part of the run: no sentence, no text, no drag
ListIdle ==
    /\ input = << >>
    /\ sentences = << >>
    /\ initialSentences = << >>
    /\ dragItem = NoDrag

\* nothing parsed by a matcher or drawn by the playground yet
ResultIdle ==
    /\ filters = NoFilters
    /\ received = ParseResult(<< >>, << >>, FALSE)
    /\ matcher = NoMatcher
    /\ output = << >>
    /\ showNulls = FALSE
    /\ rendered = << >>

MatchIdle == ResultIdle /\ ListIdle

TaskIdle ==
    /\ task = NoTask
    /\ todo = 0

NoCall == [pos |-> "", op |-> "none", w1 |-> << >>, w2 |-> << >>, excl |-> << >>]

QueryIdle ==
    /\ tree = NullNode("")
    /\ call = NoCall
    /\ ret = FALSE
    /\ pc = "idle"

(***************************************************************************)
(* Parse specification: helpers.parse is called again and again            *)
(***************************************************************************)
InitParse == ParseIdle /\ MatchIdle /\ TaskIdle /\ QueryIdle

\* a caller calls helpers.parse(s)
Parse(s) ==
    \E r \in { parse(parser, s) } :
        /\ sentence' = s
        /\ parser' = r.parser
        /\ outcome' = r.outcome
        /\ ppc' = "parse"
        /\ probe' = IF s = ProbeSentence
                    THEN (IF probe = "none" THEN "once"
                          ELSE IF probe = "once" THEN "once"
                          ELSE "twice")
                    ELSE (IF probe = "once" THEN "between" ELSE probe)
        /\ probeOutcome' = IF s = ProbeSentence /\ probe = "none"
                           THEN r.outcome ELSE probeOutcome
        /\ UNCHANGED <<listVars, queryVars, matchVars>>

NextParse == \E s \in Sentences : Parse(s)

SpecParse == InitParse /\ [][NextParse]_vars

(***************************************************************************)
(* Matcher specification: a test parses a sentence with matchers.parse and *)
(* applies a matcher to the result; the playground parses a sentence       *)
(***************************************************************************)
\* a test with one matcher call in its body, or a playground session
InitMatch == ParseIdle /\ MatchIdle /\ QueryIdle /\ task = NewTask /\ todo = 1

\* const result = parse(sentence, filters)
MatchersParse(s, fl) ==
    /\ ppc = "idle"
    /\ \E r \in { matchersParse(parser, s, fl) } :
        /\ sentence' = s
        /\ parser' = r.parser
        /\ outcome' = r.outcome
        /\ filters' = fl
        /\ received' = r.value
        /\ ppc' = "matchersParse"
        /\ UNCHANGED <<listVars, queryVars, probe, probeOutcome, matcher, output, showNulls,
                       rendered, task, todo>>

\* expect(result).toBeGrammatical() or expect(result).not.toBeGrammatical()
ToBeGrammatical(isNot) ==
    /\ ppc \in { "matchersParse", "matcher" }
    /\ todo > 0
    /\ matcher' = [name |-> "toBeGrammatical", test |-> NoMatcher.test,
                   pass |-> toBeGrammatical(received), isNot |-> isNot]
    /\ task' = recordAssertion(task, received.sentence, toBeGrammaticalRecord(received, isNot),
                               received.hasError, received.error)
    /\ todo' = todo - 1
    /\ ppc' = "matcher"
    /\ UNCHANGED <<listVars, queryVars, sentence, parser, outcome, probe, probeOutcome,
                   filters, received, output, showNulls, rendered>>

\* expect(result).toHaveConstituent(test), plain or with .not
ToHaveConstituent(test, isNot) ==
    /\ ppc \in { "matchersParse", "matcher" }
    /\ todo > 0
    /\ matcher' = [name |-> "toHaveConstituent", test |-> test,
                   pass |-> toHaveConstituent(received, test), isNot |-> isNot]
    /\ task' = recordAssertion(task, received.sentence, toHaveConstituentRecord(received, test, isNot),
                               received.hasError, received.error)
    /\ todo' = todo - 1
    /\ ppc' = "matcher"
    /\ UNCHANGED <<listVars, queryVars, sentence, parser, outcome, probe, probeOutcome,
                   filters, received, output, showNulls, rendered>>

\* expect(result).toHavePOS(test), plain or with .not
ToHavePOS(test, isNot) ==
    /\ ppc \in { "matchersParse", "matcher" }
    /\ todo > 0
    /\ matcher' = [name |-> "toHavePOS", test |-> test,
                   pass |-> toHavePOS(received, test), isNot |-> isNot]
    /\ task' = recordAssertion(task, received.sentence, toHavePOSRecord(received, test, isNot),
                               received.hasError, received.error)
    /\ todo' = todo - 1
    /\ ppc' = "matcher"
    /\ UNCHANGED <<listVars, queryVars, sentence, parser, outcome, probe, probeOutcome,
                   filters, received, output, showNulls, rendered>>

\* the playground's Parse button: setOutput(parseEnglish(input))
\* and the render that follows
ParseEnglish(s) ==
    /\ ppc \in { "idle", "parseEnglish" }
    /\ \E r \in { parseEnglish(parser, s) } :
        /\ sentence' = s
        /\ parser' = r.parser
        /\ outcome' = r.outcome
        /\ output' = outputAfterRender(r.value, showNulls)
        /\ rendered' = render(r.value, showNulls)
        /\ ppc' = "parseEnglish"
        /\ UNCHANGED <<listVars, queryVars, probe, probeOutcome, filters, received, matcher,
                       showNulls, task, todo>>

\* the "Show Nulls" checkbox: setShowNulls((prev) => !prev), and the render
\* that follows
ToggleShowNulls ==
    /\ ppc \in { "idle", "parseEnglish" }
    /\ showNulls' = ~showNulls
    /\ output' = outputAfterRender(output, ~showNulls)
    /\ rendered' = render(output, ~showNulls)
    /\ UNCHANGED <<listVars, queryVars, parseVars, filters, received, matcher, task, todo>>

\* a test makes one parse call and applies one matcher to the result; a
\* playground session parses sentences and toggles "Show nulls"
NextMatch ==
    \/ \E s \in MatchSentences, fl \in FilterArgs : MatchersParse(s, fl)
    \/ \E isNot \in BOOLEAN : ToBeGrammatical(isNot)
    \/ \E test \in ConstituentTests, isNot \in BOOLEAN : ToHaveConstituent(test, isNot)
    \/ \E test \in HasPOSTests, isNot \in BOOLEAN : ToHavePOS(test, isNot)
    \/ \E s \in MatchSentences : ParseEnglish(s)
    \/ ToggleShowNulls

SpecMatch == InitMatch /\ [][NextMatch]_vars

(***************************************************************************)
(* Recording specification: a test parses a sentence and applies several   *)
(* matchers to the result, with or without a task to record into           *)
(***************************************************************************)
MaxAssertions == 2      \* matcher calls in one test body

InitRecord ==
    /\ ParseIdle /\ MatchIdle /\ QueryIdle
    /\ task \in { NewTask, NoTask }
    /\ todo = MaxAssertions

NextRecord ==
    \/ \E s \in MatchSentences : MatchersParse(s, NoFilters)
    \/ \E isNot \in BOOLEAN : ToBeGrammatical(isNot)
    \/ \E test \in ConstituentTests, isNot \in BOOLEAN : ToHaveConstituent(test, isNot)
    \/ \E test \in HasPOSTests, isNot \in BOOLEAN : ToHavePOS(test, isNot)

SpecRecord == InitRecord /\ [][NextRecord]_vars

(***************************************************************************)
(* Grammar specification: the tests of the grammar parse one sentence      *)
(* with matchers.parse                                                     *)
(***************************************************************************)
MaxGrammarWords == 4    \* words of a sentence of the grammar tests
GrammarWords == { W_The, W_dogs, W_runs, W_took, W_off, W_it, W_carried, W_out }
GrammarSentences == SeqsUpTo(GrammarWords, MaxGrammarWords)

InitGrammar == ParseIdle /\ MatchIdle /\ QueryIdle /\ task = NewTask /\ todo = 1

NextGrammar == \E s \in GrammarSentences : MatchersParse(s, NoFilters)

SpecGrammar == InitGrammar /\ [][NextGrammar]_vars

(***************************************************************************)
(* Input universes of the tree-query specification                         *)
(***************************************************************************)
MaxNodes == 5        \* nodes of a tree handed to checkConstituency
MaxPosNodes == 4     \* nodes of a tree handed to checkPartOfSpeech

RECURSIVE TreesOfSize(_, _, _)
RECURSIVE Forests(_, _, _)
\* all trees with exactly n nodes, childless nodes drawn from leafNodes
TreesOfSize(n, kinds, leafNodes) ==
    IF n = 1 THEN leafNodes
    ELSE { ListNode(k, f) : k \in kinds, f \in Forests(n - 1, kinds, leafNodes) }

\* all non-empty child lists with m nodes in total (the empty one for m = 0)
Forests(m, kinds, leafNodes) ==
    IF m = 0 THEN { << >> }
    ELSE UNION { { << t >> \o f : t \in TreesOfSize(k, kinds, leafNodes),
                                  f \in Forests(m - k, kinds, leafNodes) }
                 : k \in 1..m }

ConstituencyLeafNodes ==
    { WordNode("X", << "a" >>), WordNode("X", << "b" >>),
      NullNode("X"), ListNode("X", << >>) }
ConstituencyTrees ==
    UNION { TreesOfSize(n, {"X"}, ConstituencyLeafNodes) : n \in 1..MaxNodes }
ConstituencyRefs ==
    { << "a" >>, << "b" >>, << "c" >>, << "a", ":", "0" >>, << "a", ":", "1" >> }

PosKinds == { "N", "NP" }
PosTags == { "N", "NP" }
PosLeafNodes ==
    { WordNode(k, w) : k \in PosKinds, w \in { << "a" >>, << "A" >>, << "b" >> } }
PosTrees ==
    UNION { TreesOfSize(n, PosKinds, PosLeafNodes) : n \in 1..MaxPosNodes }
PosRefs ==
    { << "a" >>, << "A" >>, << "b" >>,
      << "a", ":", "0" >>, << "a", ":", "1" >>, << "A", ":", "1" >>,
      << "a", ":", "2" >>, << "a", ":", "x" >>, << ":" >>,
      << "a", ":", "0", ":", "1" >> }

(***************************************************************************)
(* Tree-query specification: a tree is given, a helper is called on it     *)
(***************************************************************************)
InitQuery ==
    /\ tree \in ConstituencyTrees \cup PosTrees
    /\ call = NoCall
    /\ ret = FALSE
    /\ pc = "idle"
    /\ ParseIdle
    /\ MatchIdle
    /\ TaskIdle

CallCheckConstituency(w1, w2, excl) ==
    /\ pc = "idle"
    /\ tree \in ConstituencyTrees
    /\ call' = [pos |-> "", op |-> "checkConstituency", w1 |-> w1, w2 |-> w2,
                excl |-> excl]
    /\ ret' = checkConstituency(tree, w1, w2, excl)
    /\ tree' = treeAfterFindLeaves(tree)
    /\ pc' = "done"
    /\ UNCHANGED <<listVars, parseVars, matchVars>>

CallCheckPartOfSpeech(w, pos) ==
    /\ pc = "idle"
    /\ tree \in PosTrees
    /\ call' = [pos |-> pos, op |-> "checkPartOfSpeech", w1 |-> w, w2 |-> << >>,
                excl |-> << >>]
    /\ ret' = checkPartOfSpeech(tree, w, pos)
    /\ tree' = treeAfterFindLeaves(tree)
    /\ pc' = "done"
    /\ UNCHANGED <<listVars, parseVars, matchVars>>

\* the caller drops the result; the tree is still there for the next call
Return ==
    /\ pc = "done"
    /\ call' = NoCall
    /\ ret' = FALSE
    /\ pc' = "idle"
    /\ UNCHANGED <<listVars, tree, parseVars, matchVars>>

NextQuery ==
    \/ \E w1 \in ConstituencyRefs, w2 \in ConstituencyRefs, excl \in ConstituencyRefs :
          CallCheckConstituency(w1, w2, excl)
    \/ \E w \in PosRefs, pos \in PosTags : CallCheckPartOfSpeech(w, pos)
    \/ Return

SpecQuery == InitQuery /\ [][NextQuery]_vars

(***************************************************************************)
(* Vocabulary of the claims about the tree-query helpers, stated on        *)
(* addresses and sets rather than on the helpers' paths and loops          *)
(***************************************************************************)
RECURSIVE Addrs(_)
\* the addresses of all nodes of t
Addrs(t) ==
    { << >> } \cup
    (IF t.ctype = "list"
     THEN UNION { { << i >> \o a : a \in Addrs(t.kids[i]) } : i \in 1..Len(t.kids) }
     ELSE { })

\* the leaves: nodes whose children is a terminal word
LeafAddrs(t) == { a \in Addrs(t) : nodeAt(t, a).ctype = "string" }

IsPrefix(p, a) == Len(p) <= Len(a) /\ SubSeq(a, 1, Len(p)) = p

\* node p is node a or one of its ancestors
IsAncestorOrSelf(p, a) == IsPrefix(p, a)

\* leaf a is strictly to the left of leaf b
LeftOf(a, b) ==
    \E i \in 1..Len(a) :
        /\ i <= Len(b)
        /\ SubSeq(a, 1, i - 1) = SubSeq(b, 1, i - 1)
        /\ a[i] < b[i]

\* the lowest node that has both a and b below (or at) it
LowestCommonAncestor(t, a, b) ==
    CHOOSE p \in Addrs(t) :
        /\ IsAncestorOrSelf(p, a) /\ IsAncestorOrSelf(p, b)
        /\ \A q \in Addrs(t) :
              IsAncestorOrSelf(q, a) /\ IsAncestorOrSelf(q, b) => Len(q) <= Len(p)

SameWordIgnoringCase(u, v) == toLowerCase(u) = toLowerCase(v)

ColonPositions(ref) == { i \in 1..Len(ref) : ref[i] = ":" }
\* a reference "w": no colon
IsPlainRef(ref) == ColonPositions(ref) = { }
\* a reference "w:k": one colon, then a decimal numeral
IsIndexedRef(ref) ==
    /\ Cardinality(ColonPositions(ref)) = 1
    /\ LET c == CHOOSE i \in ColonPositions(ref) : TRUE
       IN  c < Len(ref) /\ \A i \in (c + 1)..Len(ref) : isDigit(ref[i])
RefWord(ref) ==
    IF IsPlainRef(ref) THEN ref
    ELSE SubSeq(ref, 1, (CHOOSE i \in ColonPositions(ref) : TRUE) - 1)
RECURSIVE DecimalValue(_)
DecimalValue(d) ==
    IF d = << >> THEN 0
    ELSE 10 * DecimalValue(SubSeq(d, 1, Len(d) - 1)) + digitVal(d[Len(d)])
RefIndex(ref) ==
    DecimalValue(SubSeq(ref, (CHOOSE i \in ColonPositions(ref) : TRUE) + 1, Len(ref)))

\* the leaves of t whose word is w, ignoring case
LeavesWithWord(t, w) ==
    { l \in LeafAddrs(t) : SameWordIgnoringCase(nodeAt(t, l).word, w) }

\* the leaves a plain or indexed reference denotes
MatchedLeaves(t, ref) ==
    IF IsPlainRef(ref) THEN LeavesWithWord(t, ref)
    ELSE { l \in LeavesWithWord(t, RefWord(ref)) :
             Cardinality({ m \in LeavesWithWord(t, RefWord(ref)) : LeftOf(m, l) })
               = RefIndex(ref) }

\* the leaves (as addresses) the helpers' own filter keeps for a reference
FilteredAddrs(t, ref) ==
    LET kept == filterLeaves(findLeaves(t), parseWordRef(ref))
    IN  { kept[i].path[Len(kept[i].path)] : i \in 1..Len(kept) }

ParentAddr(a) == SubSeq(a, 1, Len(a) - 1)

ConstituencyDone == pc = "done" /\ call.op = "checkConstituency"
PosDone == pc = "done" /\ call.op = "checkPartOfSpeech"

\* some leaf of w1 and some leaf of w2 have a lowest common ancestor with
\* no leaf of excl at or below it
SomePairExcludes(t, w1, w2, excl) ==
    \E l1 \in MatchedLeaves(t, w1) : \E l2 \in MatchedLeaves(t, w2) :
        \A e \in MatchedLeaves(t, excl) :
            ~IsAncestorOrSelf(LowestCommonAncestor(t, l1, l2), e)

(***************************************************************************)
(* C1: checkConstituency(tree, w1, w2, excl) is true exactly when each of  *)
(* the three references matches a leaf and some leaf of w1 and some leaf   *)
(* of w2 have a lowest common ancestor with no leaf of excl below it.      *)
(***************************************************************************)
C1_ConstituencyIffLcaExcludes ==
    ConstituencyDone =>
        ret = ( /\ MatchedLeaves(tree, call.w1) # { }
                /\ MatchedLeaves(tree, call.w2) # { }
                /\ MatchedLeaves(tree, call.excl) # { }
                /\ SomePairExcludes(tree, call.w1, call.w2, call.excl) )

\* two different leaves grouped under an inner node that excludes a third
C1_Witness ==
    /\ ConstituencyDone
    /\ ret = TRUE
    /\ \E l1 \in MatchedLeaves(tree, call.w1) : \E l2 \in MatchedLeaves(tree, call.w2) :
          /\ l1 # l2
          /\ LowestCommonAncestor(tree, l1, l2) # << >>
          /\ \A e \in MatchedLeaves(tree, call.excl) :
                ~IsAncestorOrSelf(LowestCommonAncestor(tree, l1, l2), e)

(***************************************************************************)
(* C2: checkConstituency is false whenever w1, w2 or the excluded word     *)
(* matches no leaf, also when only the excluded word is absent and w1 and  *)
(* w2 share a subtree.                                                     *)
(***************************************************************************)
C2_FalseWhenAWordIsAbsent ==
    ConstituencyDone
      /\ ( \/ MatchedLeaves(tree, call.w1) = { }
           \/ MatchedLeaves(tree, call.w2) = { }
           \/ MatchedLeaves(tree, call.excl) = { } )
      => ret = FALSE

\* only the excluded word is absent; w1 and w2 sit together below the root
C2_Witness ==
    /\ ConstituencyDone
    /\ ret = FALSE
    /\ MatchedLeaves(tree, call.excl) = { }
    /\ \E l1 \in MatchedLeaves(tree, call.w1) : \E l2 \in MatchedLeaves(tree, call.w2) :
          l1 # l2 /\ LowestCommonAncestor(tree, l1, l2) # << >>

(***************************************************************************)
(* C3: checkPartOfSpeech(tree, wordRef, tag) is true exactly when some     *)
(* leaf matching wordRef has kind tag or has an immediate parent of kind   *)
(* tag; no match gives false, and higher ancestors are never consulted.    *)
(***************************************************************************)
C3_PosIffLeafOrParentKind ==
    PosDone =>
        ret = (\E l \in FilteredAddrs(tree, call.w1) :
                  \/ nodeAt(tree, l).kind = call.pos
                  \/ l # << >> /\ nodeAt(tree, ParentAddr(l)).kind = call.pos)

\* a matching leaf whose grandparent alone carries the tag: the result is false
C3_Witness ==
    /\ PosDone
    /\ ret = FALSE
    /\ \E l \in FilteredAddrs(tree, call.w1) :
          /\ Len(l) >= 2
          /\ nodeAt(tree, ParentAddr(ParentAddr(l))).kind = call.pos

(***************************************************************************)
(* C4: a reference "w:k" matches exactly the (k+1)-th leaf from the left   *)
(* whose word is w ignoring case (none if there are fewer), and a          *)
(* reference "w" matches every leaf whose word is w ignoring case.         *)
(***************************************************************************)
CallRefs ==
    IF call.op = "checkConstituency" THEN { call.w1, call.w2, call.excl }
    ELSE IF call.op = "checkPartOfSpeech" THEN { call.w1 }
    ELSE { }

C4_WordRefMatching ==
    pc = "done" =>
        \A ref \in CallRefs :
            IsPlainRef(ref) \/ IsIndexedRef(ref) =>
                FilteredAddrs(tree, ref) = MatchedLeaves(tree, ref)

\* "A:1" picks the second of several leaves spelled a or A, and only it
C4_Witness ==
    /\ PosDone
    /\ call.w1 = << "A", ":", "1" >>
    /\ Cardinality(LeavesWithWord(tree, << "a" >>)) >= 3
    /\ Cardinality(FilteredAddrs(tree, call.w1)) = 1
    /\ \E l \in FilteredAddrs(tree, call.w1) :
          /\ nodeAt(tree, l).word = << "a" >>
          /\ Cardinality({ m \in LeavesWithWord(tree, << "a" >>) : LeftOf(m, l) }) = 1

(***************************************************************************)
(* Vocabulary of the claims about the matchers and the parse engine        *)
(***************************************************************************)
\* the words at the leaves of a tree, left to right, as spelled in the tree
RECURSIVE TerminalWords(_)
RECURSIVE TerminalWordsOfKids(_, _)
TerminalWords(t) ==
    IF t.ctype = "string" THEN << t.word >>
    ELSE IF t.ctype = "list" THEN TerminalWordsOfKids(t.kids, 1)
    ELSE << >>
TerminalWordsOfKids(kids, i) ==
    IF i > Len(kids) THEN << >>
    ELSE TerminalWords(kids[i]) \o TerminalWordsOfKids(kids, i + 1)

\* the surface forms of the tokens lex gives for a sentence
TokenTexts(s) == [i \in 1..Len(lex(s)) |-> lex(s)[i].text]

\* a sequence of grammar symbols derives a token sequence (the grammar's
\* language, stated by derivation and not by the chart)
RECURSIVE Yields(_, _)
Yields(symbols, toks) ==
    IF symbols = << >> THEN toks = << >>
    ELSE \E k \in 0..Len(toks) :
            /\ IF symbols[1].term
               THEN k = 1 /\ symbols[1].name \in toks[1].tags
               ELSE \E r \in 1..Len(ParserRules) :
                       /\ ParserRules[r].name = symbols[1].name
                       /\ Yields(ParserRules[r].symbols, SubSeq(toks, 1, k))
            /\ Yields(Tail(symbols), SubSeq(toks, k + 1, Len(toks)))

\* the sentence has at least one derivation from the start symbol
Derivable(s) == Yields(<< NT(ParserStart) >>, lex(s))

\* a tree satisfies a filter of matchers.parse
SatisfiesFilter(t, f) ==
    IF f \in ConstituentTests
    THEN checkConstituency(t, f.in[1], f.in[2], f.out)
    ELSE checkPartOfSpeech(t, f.word, f.pos)

\* the positions of the trees of a sequence that satisfy every filter given
Survivors(trees, fs) ==
    { i \in 1..Len(trees) : \A j \in 1..Len(fs) : SatisfiesFilter(trees[i], fs[j]) }

\* q is the subsequence of `trees` at the positions P, in the original order
IsSubsequenceAt(q, trees, P) ==
    /\ Len(q) = Cardinality(P)
    /\ \A i \in P : q[Cardinality({ j \in P : j <= i })] = trees[i]

MatchersParseDone == ppc \in { "matchersParse", "matcher" }

\* C5: toHaveConstituent (toHavePOS) passes exactly when at least one tree of
\* the result it is given satisfies checkConstituency (checkPartOfSpeech) for
\* the test; with zero trees it does not pass.
C5_MatcherPassesIffSomeTree ==
    /\ (ppc = "matcher" /\ matcher.name = "toHaveConstituent") =>
          /\ matcher.pass <=>
                \E i \in 1..Len(received.trees) :
                    checkConstituency(received.trees[i], matcher.test.in[1],
                                      matcher.test.in[2], matcher.test.out)
          /\ Len(received.trees) = 0 => ~matcher.pass
    /\ (ppc = "matcher" /\ matcher.name = "toHavePOS") =>
          /\ matcher.pass <=>
                \E i \in 1..Len(received.trees) :
                    checkPartOfSpeech(received.trees[i], matcher.test.word,
                                      matcher.test.pos)
          /\ Len(received.trees) = 0 => ~matcher.pass

\* toHaveConstituent passed on a result of two trees of which only one has
\* the constituent
C5_Witness ==
    /\ ppc = "matcher"
    /\ matcher.name = "toHaveConstituent"
    /\ matcher.pass
    /\ Len(received.trees) = 2
    /\ \E i \in 1..2 :
          ~checkConstituency(received.trees[i], matcher.test.in[1],
                             matcher.test.in[2], matcher.test.out)

\* C6: when the underlying parse returns, matchers.parse with filters returns
\* exactly the trees of the underlying parse that satisfy all the filters, in
\* their original order; with no filters, or an empty list, it returns all of
\* them.
C6_FiltersKeepExactlySatisfyingTrees ==
    (MatchersParseDone /\ ~outcome.raised
       /\ \A j \in 1..Len(filters.list) :
             filters.list[j] \in ConstituentTests \cup HasPOSTests) =>
        /\ ~received.hasError
        /\ IsSubsequenceAt(received.trees, outcome.trees,
                           Survivors(outcome.trees, filters.list))
        /\ (~filters.given \/ filters.list = << >>) => received.trees = outcome.trees

\* two filters of different kinds were given, the parse had two trees, and
\* one of them was filtered out
C6_Witness ==
    /\ MatchersParseDone
    /\ ~outcome.raised
    /\ Len(filters.list) = 2
    /\ filters.list[1] \in ConstituentTests
    /\ filters.list[2] \in HasPOSTests
    /\ Len(outcome.trees) = 2
    /\ Len(received.trees) = 1

\* C7: parse of a sentence that has no derivation returns an empty list of
\* trees and raises no error.
C7_NoDerivationReturnsEmptyList ==
    (ppc = "parse" /\ ~Derivable(sentence)) =>
        /\ ~outcome.raised
        /\ outcome.trees = << >>

\* C8: a consumer never reports a parse that raised an error as it reports a
\* parse that returned zero trees: the assertion outcome of toBeGrammatical
\* (plain or with .not) differs from the one for a zero-tree result, and the
\* output of parseEnglish differs from the empty list it gives for zero trees.
C8_ErrorNotReportedAsZeroTrees ==
    /\ (ppc = "matcher" /\ matcher.name = "toBeGrammatical" /\ outcome.raised) =>
          assertionHolds(matcher.pass, matcher.isNot)
            # assertionHolds(toBeGrammatical(ParseResult(sentence, << >>, FALSE)),
                             matcher.isNot)
    /\ (ppc = "parseEnglish" /\ outcome.raised) => output # << >>

\* C9: the words at the leaves of every tree parse returns are, left to
\* right, the tokens lex gives for the sentence.
C9_LeavesAreTheTokens ==
    (ppc = "parse" /\ ~outcome.raised) =>
        \A i \in 1..Len(outcome.trees) :
            TerminalWords(outcome.trees[i]) = TokenTexts(sentence)

\* parse returned two trees for a sentence of three words
C9_Witness ==
    /\ ppc = "parse"
    /\ ~outcome.raised
    /\ Len(outcome.trees) = 2
    /\ Len(sentence) = 3
    /\ TerminalWords(outcome.trees[1]) = sentence

\* C10: a call of parse gives what the first call of a run gives for the same
\* sentence, whatever was parsed before; a second call for a sentence, with
\* other sentences parsed in between, gives the trees of the first.
C10_ParseCarriesNoState ==
    /\ ppc = "parse" => outcome = parse(NoParser, sentence).outcome
    /\ (probe = "twice" /\ sentence = ProbeSentence) => outcome = probeOutcome

\* the probe sentence was parsed, other sentences were, and it was parsed
\* again, with two trees
C10_Witness ==
    /\ probe = "twice"
    /\ sentence = ProbeSentence
    /\ parser.fed = ProbeSentence
    /\ Len(outcome.trees) = 2

\* C11: when checkConstituency(tree, w1, w2, excl) succeeds, the word of each
\* of the three references is the word of some leaf of the tree, ignoring
\* case.
C11_SuccessNeedsEveryWordInTree ==
    (ConstituencyDone /\ ret) =>
        \A ref \in { call.w1, call.w2, call.excl } :
            LeavesWithWord(tree, RefWord(ref)) # { }

\* a successful call: the second "a" groups with "b" and excludes the first
C11_Witness ==
    /\ ConstituencyDone
    /\ ret
    /\ call.w1 = << "a", ":", "1" >>
    /\ call.w2 = << "b" >>
    /\ call.excl = << "a", ":", "0" >>

\* C12: checkConstituency and checkPartOfSpeech are pure reads: no step of
\* any sequence of calls changes the tree they are given (the kind, the
\* children and the child order of every node).
C12_HelpersNeverChangeTheTree == [][tree' = tree]_vars

\* checkPartOfSpeech has found the leaf "A" through the reference "a"
C12_Witness ==
    /\ PosDone
    /\ ret
    /\ call.w1 = << "a" >>
    /\ \E l \in LeafAddrs(tree) : nodeAt(tree, l).word = << "A" >>
    /\ LeavesWithWord(tree, << "a" >>) = { l \in LeafAddrs(tree) : nodeAt(tree, l).word = << "A" >> }

\* the tree has a node whose children is null or an empty list
RECURSIVE HasEmptyNode(_)
HasEmptyNode(t) ==
    \/ t.ctype = "null"
    \/ t.ctype = "list" /\ t.kids = << >>
    \/ t.ctype = "list" /\ \E i \in 1..Len(t.kids) : HasEmptyNode(t.kids[i])

\* C13: pruning is display-only. Whatever the playground has parsed, drawn
\* and toggled, `output` holds the parser's results as the parser returned
\* them, and what is drawn is their pruning; the trees matchers.parse keeps
\* after testing them with the helpers are trees of the parser, not pruned.
C13_PruningIsDisplayOnly ==
    /\ ppc = "parseEnglish" =>
          /\ output = (IF outcome.raised THEN << >> ELSE outcome.trees)
          /\ rendered = [i \in 1..Len(output) |-> pruneTree(output[i], showNulls)]
    /\ (MatchersParseDone /\ ~outcome.raised) =>
          \A i \in 1..Len(received.trees) :
              \E j \in 1..Len(outcome.trees) : received.trees[i] = outcome.trees[j]

\* a sentence was parsed and "Show nulls" switched on: the drawing differs
\* from the output, which still has its empty node
C13_Witness ==
    /\ ppc = "parseEnglish"
    /\ showNulls
    /\ Len(output) = 2
    /\ \E i \in 1..2 : HasEmptyNode(output[i]) /\ rendered[i] # output[i]
    /\ \E i \in 1..2 : ~HasEmptyNode(output[i]) /\ rendered[i] = output[i]

\* the sentence opens with a plural noun phrase followed by a third-person
\* singular present verb form
PluralSubjectSingularVerb(s) ==
    \E k \in 1..(Len(s) - 1) :
        /\ Yields(<< NT("NP_pl") >>, SubSeq(lex(s), 1, k))
        /\ "v_3sg" \in lex(s)[k + 1].tags

IsSubject(toks) ==
    \/ Yields(<< NT("NP_sg") >>, toks)
    \/ Yields(<< NT("NP_pl") >>, toks)

\* s is "subject verb particle object" for the frame f, the object a full
\* noun phrase
ParticleFirstOrder(f, s) ==
    \E i \in 2..(Len(s) - 2) :
        /\ IsSubject(SubSeq(lex(s), 1, i - 1))
        /\ f.verb \in lex(s)[i].tags
        /\ f.particle \in lex(s)[i + 1].tags
        /\ Yields(<< NT("NP_obj") >>, SubSeq(lex(s), i + 2, Len(s)))

\* s is "subject verb object particle" for the frame f, the object a full
\* noun phrase
ObjectFirstOrder(f, s) ==
    \E i \in 2..(Len(s) - 2) :
        /\ IsSubject(SubSeq(lex(s), 1, i - 1))
        /\ f.verb \in lex(s)[i].tags
        /\ Yields(<< NT("NP_obj") >>, SubSeq(lex(s), i + 1, Len(s) - 1))
        /\ f.particle \in lex(s)[Len(s)].tags

C15_BothOrdersParseWhenUnflagged ==
    \A n \in 1..Len(VerbFrames) :
        LET f == VerbFrames[n] IN
        /\ (MatchersParseDone /\ ParticleFirstOrder(f, sentence)) =>
               received.trees # << >>
        /\ (MatchersParseDone /\ ObjectFirstOrder(f, sentence)
              /\ ~f.resistsParticleMovement) =>
               received.trees # << >>

\* "dogs took dogs off" was parsed and has a tree
C15_UnflaggedObjectFirstWitness ==
    /\ MatchersParseDone
    /\ sentence = << W_dogs, W_took, W_dogs, W_off >>
    /\ ObjectFirstOrder(VerbFrames[1], sentence)
    /\ received.trees # << >>

\* the fossilised idiom in object-first order, "dogs carried dogs out" ('He
\* carried his threat out.'), was parsed and has a tree
C15_FlaggedObjectFirstParses ==
    /\ MatchersParseDone
    /\ sentence = << W_dogs, W_carried, W_dogs, W_out >>
    /\ VerbFrames[2].resistsParticleMovement
    /\ ObjectFirstOrder(VerbFrames[2], sentence)
    /\ received.trees # << >>

\* s is "subject verb particle pronoun" for the frame f
ParticleBeforePronoun(f, s) ==
    /\ Len(s) >= 4
    /\ IsSubject(SubSeq(lex(s), 1, Len(s) - 3))
    /\ f.verb \in lex(s)[Len(s) - 2].tags
    /\ f.particle \in lex(s)[Len(s) - 1].tags
    /\ "pron" \in lex(s)[Len(s)].tags

\* s is "subject verb pronoun particle" for the frame f
PronounBeforeParticle(f, s) ==
    /\ Len(s) >= 4
    /\ IsSubject(SubSeq(lex(s), 1, Len(s) - 3))
    /\ f.verb \in lex(s)[Len(s) - 2].tags
    /\ "pron" \in lex(s)[Len(s) - 1].tags
    /\ f.particle \in lex(s)[Len(s)].tags

\* C16: for a particle verb, "verb particle pronoun" ('She took off it.')
\* has no derivation and its result has zero trees, while "verb pronoun
\* particle" ('She took it off.') parses.
C16_ParticleMayNotPrecedePronoun ==
    \A n \in 1..Len(VerbFrames) :
        /\ (MatchersParseDone /\ ParticleBeforePronoun(VerbFrames[n], sentence)) =>
               /\ ~Derivable(sentence)
               /\ received.trees = << >>
               /\ ~toBeGrammatical(received)
        /\ (MatchersParseDone /\ PronounBeforeParticle(VerbFrames[n], sentence)) =>
               /\ received.trees # << >>
               /\ toBeGrammatical(received)

\* "dogs took off it" was parsed and has no tree
C16_Witness ==
    /\ MatchersParseDone
    /\ sentence = << W_dogs, W_took, W_off, W_it >>
    /\ ParticleBeforePronoun(VerbFrames[1], sentence)
    /\ received.trees = << >>

\* "dogs took it off" was parsed and has a tree
C16_PronounFirstWitness ==
    /\ MatchersParseDone
    /\ sentence = << W_dogs, W_took, W_it, W_off >>
    /\ PronounBeforeParticle(VerbFrames[1], sentence)
    /\ received.trees # << >>

\* the try block of matchers.parse raised: the underlying parse threw, or
\* the filter callback threw on a tree it reached
TryBlockRaised ==
    \/ outcome.raised
    \/ /\ filters.given
       /\ Len(filters.list) > 0
       /\ filterTreesThrows(outcome.trees, filters.list)

\* C17: matchers.parse always returns a ParseResult carrying the sentence.
\* When the underlying parse or a filter raises, the result has empty trees
\* and the error's message in `error`; when nothing raises, the result has no
\* `error` field.
C17_MatchersParseNeverThrows ==
    MatchersParseDone =>
        /\ received.sentence = sentence
        /\ TryBlockRaised =>
               /\ received.hasError
               /\ received.trees = << >>
               /\ received.error =
                      (IF outcome.raised THEN SyntaxErrorMessage ELSE TypeErrorMessage)
               /\ received.error # NoMessage
        /\ ~TryBlockRaised =>
               /\ ~received.hasError
               /\ received.error = NoMessage

\* a filter with an undefined word reference threw on a tree of a sentence
\* that parsed, and the result carries the TypeError's message
C17_Witness ==
    /\ MatchersParseDone
    /\ ~outcome.raised
    /\ outcome.trees # << >>
    /\ TryBlockRaised
    /\ received.hasError
    /\ received.error = TypeErrorMessage

\* the underlying parse threw and the result carries its message
C17_ParseRaisedWitness ==
    /\ MatchersParseDone
    /\ outcome.raised
    /\ received.hasError
    /\ received.error = SyntaxErrorMessage

\* the `type` a matcher gives the assertion it records
AssertionTypeOf(name) ==
    IF name = "toBeGrammatical" THEN "grammatical"
    ELSE IF name = "toHaveConstituent" THEN "constituency"
    ELSE "pos"

\* a step is a matcher call: it uses up one of the test's matcher calls
MatcherCallStep == todo' = todo - 1

\* C18: within one test every matcher call appends exactly one
\* RecordedAssertion to task.meta.assertions, after the ones recorded before
\* and leaving them as they were, and sets task.meta.sentence to the
\* sentence of the result; without a task nothing is recorded.
C18_EachMatcherCallRecordsOnce ==
    [][MatcherCallStep =>
        IF task.has
        THEN /\ task'.has
             /\ Len(task'.meta.assertions) = Len(task.meta.assertions) + 1
             /\ SubSeq(task'.meta.assertions, 1, Len(task.meta.assertions))
                    = task.meta.assertions
             /\ task'.meta.assertions[Len(task'.meta.assertions)].type
                    = AssertionTypeOf(matcher'.name)
             /\ task'.meta.assertions[Len(task'.meta.assertions)].parseCount
                    = Len(received.trees)
             /\ task'.meta.hasSentence
             /\ task'.meta.sentence = received.sentence
        ELSE task' = NoTask]_vars

\* a test has made two matcher calls of different kinds and its task holds
\* the two assertions in call order
C18_Witness ==
    /\ task.has
    /\ todo = 0
    /\ Len(task.meta.assertions) = 2
    /\ task.meta.assertions[1].type = "grammatical"
    /\ task.meta.assertions[2].type = "pos"
    /\ matcher.name = "toHavePOS"
    /\ task.meta.sentence = received.sentence

\* two matcher calls were made without a task and nothing was recorded
C18_NoTaskWitness ==
    /\ ~task.has
    /\ todo = 0
    /\ ppc = "matcher"
    /\ task.meta = NoMeta

(***************************************************************************)
(* Pruning specification: a tree is handed to <SyntaxTree>, which prunes   *)
(* it with the current "Show nulls" setting before drawing it              *)
(***************************************************************************)
MaxPruneNodes == 4      \* nodes of a tree handed to pruneTree

PruneKinds == { "S", "NP" }
PruneLeafNodes ==
    { WordNode("N", << "a" >>), WordNode("N", << "b" >>),
      NullNode("X"), ListNode("X", << >>) }
PruneTrees ==
    UNION { TreesOfSize(n, PruneKinds, PruneLeafNodes) : n \in 1..MaxPruneNodes }

InitPrune ==
    /\ tree \in PruneTrees
    /\ call = NoCall
    /\ ret = FALSE
    /\ pc = "idle"
    /\ ParseIdle
    /\ MatchIdle
    /\ TaskIdle

\* SyntaxTree({ showNulls, tree }): const prunedTree = pruneTree(tree, showNulls)
SyntaxTree(nulls) ==
    /\ showNulls' = nulls
    /\ rendered' = << pruneTree(tree, nulls) >>
    /\ ppc' = "syntaxTree"
    /\ UNCHANGED <<listVars, queryVars, sentence, parser, outcome, probe, probeOutcome,
                   filters, received, matcher, output, task, todo>>

NextPrune == \E nulls \in BOOLEAN : SyntaxTree(nulls)

SpecPrune == InitPrune /\ [][NextPrune]_vars

(***************************************************************************)
(* Vocabulary of the claims about pruneTree                                *)
(***************************************************************************)
RECURSIVE TerminalLeaves(_)
RECURSIVE TerminalLeavesOfKids(_, _)
\* the leaves that carry a word, as (kind, word) pairs from left to right
TerminalLeaves(t) ==
    IF t.ctype = "string" THEN << << t.kind, t.word >> >>
    ELSE IF t.ctype = "list" THEN TerminalLeavesOfKids(t.kids, 1)
    ELSE << >>
TerminalLeavesOfKids(kids, i) ==
    IF i > Len(kids) THEN << >>
    ELSE TerminalLeaves(kids[i]) \o TerminalLeavesOfKids(kids, i + 1)

\* <SyntaxTree> has pruned `tree` with showNulls = nulls
Pruned(nulls) == ppc = "syntaxTree" /\ showNulls = nulls

\* C19: pruneTree(node, false) returns null exactly when no node of the
\* subtree carries a terminal word; otherwise the result has the same
\* terminal leaves (kind and word) in the same order, every interior node
\* of it has at least one child, and no node of it has null or empty
\* children.
C19_PruneWithoutNullsKeepsExactlyTheWords ==
    Pruned(FALSE) =>
        /\ (rendered[1] = Null) = (TerminalLeaves(tree) = << >>)
        /\ rendered[1] # Null =>
               /\ TerminalLeaves(rendered[1]) = TerminalLeaves(tree)
               /\ ~HasEmptyNode(rendered[1])

\* a tree with a word, a null child and an empty list under two levels was
\* pruned without nulls and only the word's branch is left
C19_Witness ==
    /\ Pruned(FALSE)
    /\ HasEmptyNode(tree)
    /\ Len(TerminalLeaves(tree)) = 1
    /\ Cardinality(Addrs(tree)) = MaxPruneNodes
    /\ rendered[1] # Null
    /\ Cardinality(Addrs(rendered[1])) < Cardinality(Addrs(tree))

\* a tree of several nodes without any word was pruned to null
C19_NullWitness ==
    /\ Pruned(FALSE)
    /\ Cardinality(Addrs(tree)) >= 3
    /\ TerminalLeaves(tree) = << >>
    /\ rendered[1] = Null

\* C20: pruneTree(node, true) never returns null and removes no node: a node
\* with null children becomes a leaf with the text '<null>', a node with an
\* empty child list a leaf with the text '<empty list>', and every other
\* node keeps its kind and its children in their order.
C20_PruneWithNullsRemovesNothing ==
    Pruned(TRUE) =>
        /\ rendered[1] # Null
        /\ Addrs(rendered[1]) = Addrs(tree)
        /\ \A a \in Addrs(tree) :
              LET n == nodeAt(tree, a)
                  m == nodeAt(rendered[1], a)
              IN  /\ m.kind = n.kind
                  /\ n.ctype = "null" => m = WordNode(n.kind, NullText)
                  /\ (n.ctype = "list" /\ n.kids = << >>) =>
                         m = WordNode(n.kind, EmptyListText)
                  /\ n.ctype = "string" => m = n
                  /\ (n.ctype = "list" /\ n.kids # << >>) =>
                         /\ m.ctype = "list"
                         /\ Len(m.kids) = Len(n.kids)

\* a tree with a null child, an empty list and a word was pruned with nulls
C20_Witness ==
    /\ Pruned(TRUE)
    /\ \E a \in Addrs(tree) : nodeAt(tree, a).ctype = "null"
    /\ \E a \in Addrs(tree) :
          nodeAt(tree, a).ctype = "list" /\ nodeAt(tree, a).kids = << >>
    /\ TerminalLeaves(tree) # << >>
    /\ \E a \in Addrs(rendered[1]) : nodeAt(rendered[1], a).word = NullText
    /\ \E a \in Addrs(rendered[1]) : nodeAt(rendered[1], a).word = EmptyListText

(***************************************************************************)
(* Playground sidebar: the sentence list and its handlers (App.tsx), and   *)
(* the hover handler of a card (DragAndDropCard.tsx). A SentenceItem is a  *)
(* record of its sentence and status; `uid` stands for the identity of the *)
(* item object, which the code never reads. Indices are 0-based as in the  *)
(* code; sequences are 1-based.                                            *)
(***************************************************************************)
WhiteSpace == { " ", "\t", "\n" }

RECURSIVE trimStart(_)
trimStart(s) ==
    IF s # << >> /\ Head(s) \in WhiteSpace THEN trimStart(Tail(s)) ELSE s
RECURSIVE trimEnd(_)
trimEnd(s) ==
    IF s # << >> /\ s[Len(s)] \in WhiteSpace
    THEN trimEnd(SubSeq(s, 1, Len(s) - 1))
    ELSE s

\* String.prototype.trim
trim(s) == trimEnd(trimStart(s))

\* { sentence, status }; status "none" is an item without status
SentenceItem(s, status, uid) == [sentence |-> s, status |-> status, uid |-> uid]
\* `undefined` where an item is expected
UndefinedItem == [sentence |-> << "undefined" >>, status |-> "undefined", uid |-> 0]

\* sentences.some(s => s.sentence === text)
someSentenceIs(cards, text) == \E i \in 1..Len(cards) : cards[i].sentence = text

\* the start index Array.prototype.splice uses for an array of length len
spliceStart(start, len) ==
    IF start < 0 THEN (IF len + start < 0 THEN 0 ELSE len + start)
    ELSE IF start > len THEN len
    ELSE start

\* mutant of moveCard: the two entries change places
moveCard_swaps(prevCards, dragIndex, hoverIndex) ==
    [i \in 1..Len(prevCards) |->
        IF i = dragIndex + 1 THEN prevCards[hoverIndex + 1]
        ELSE IF i = hoverIndex + 1 THEN prevCards[dragIndex + 1]
        ELSE prevCards[i]]

\* moveCard(dragIndex, hoverIndex): the updater's result for prevCards
moveCard(prevCards, dragIndex, hoverIndex) ==
    LET d == spliceStart(dragIndex, Len(prevCards))
        removed == IF d < Len(prevCards) THEN prevCards[d + 1] ELSE UndefinedItem
        newCards == IF d < Len(prevCards)
                    THEN SubSeq(prevCards, 1, d)
                             \o SubSeq(prevCards, d + 2, Len(prevCards))
                    ELSE prevCards
        h == spliceStart(hoverIndex, Len(newCards))
    IN  SubSeq(newCards, 1, h) \o << removed >>
            \o SubSeq(newCards, h + 1, Len(newCards))

\* the smallest identity no item of the two lists has: a new object
newUid(cards, initial) ==
    CHOOSE u \in 1..(Len(cards) + Len(initial) + 1) :
        /\ \A i \in 1..Len(cards) : cards[i].uid # u
        /\ \A i \in 1..Len(initial) : initial[i].uid # u
        /\ \A v \in 1..(u - 1) :
              \/ \E i \in 1..Len(cards) : cards[i].uid = v
              \/ \E i \in 1..Len(initial) : initial[i].uid = v

\* handleAddExample: the `sentences` state after the click
handleAddExample(text, cards, initial) ==
    LET trimmed == trim(text)
    IN  IF trimmed # << >> /\ ~someSentenceIs(cards, trimmed)
        THEN Append(cards, SentenceItem(trimmed, "none", newUid(cards, initial)))
        ELSE cards

RECURSIVE removeFirst(_, _)
removeFirst(cards, text) ==
    IF cards = << >> THEN << >>
    ELSE IF Head(cards).sentence = text THEN Tail(cards)
    ELSE << Head(cards) >> \o removeFirst(Tail(cards), text)

\* mutant of handleDeleteCurrentExample: only the first matching entry goes
handleDeleteCurrentExample_firstOnly(text, cards) ==
    LET trimmed == trim(text)
    IN  IF trimmed # << >> THEN removeFirst(cards, trimmed) ELSE cards

\* handleDeleteCurrentExample: the `sentences` state after the click
handleDeleteCurrentExample(text, cards) ==
    LET trimmed == trim(text)
    IN  IF trimmed # << >>
        THEN SelectSeq(cards, LAMBDA s : s.sentence # trimmed)
        ELSE cards

\* handleResetExamples: the `sentences` state after the click
handleResetExamples(initial) == initial

\* mutant of isModified: only the lengths are compared
isModified_lengthOnly(cards, initial) == Len(cards) # Len(initial)

\* isModified
isModified(cards, initial) ==
    IF Len(cards) # Len(initial) THEN TRUE
    ELSE \E i \in 1..Len(cards) : cards[i].sentence # initial[i].sentence

\* mutant of canDeleteCurrent: the list is searched for the untrimmed input
canDeleteCurrent_untrimmed(text, cards) ==
    trim(text) # << >> /\ someSentenceIs(cards, text)

\* canDeleteCurrent: the condition under which "Remove" is rendered
canDeleteCurrent(text, cards) ==
    trim(text) # << >> /\ someSentenceIs(cards, trim(text))

\* the condition under which "Add to List" is rendered
canAddCurrent(text, cards) ==
    trim(text) # << >> /\ ~someSentenceIs(cards, trim(text))

\* useDrag's item: () => ({ id, index }) for the card at `index`
DragItem(cards, index) ==
    [index |-> index, active |-> TRUE, id |-> cards[index + 1].sentence,
     card |-> cards[index + 1].uid]

\* mutant of hover: the pointer's position on the card is not consulted
hover_ignoresMidpoint(item, index, hasRef, hoverClientY, height, cards) ==
    IF ~hasRef \/ item.index = index
    THEN [sentences |-> cards, item |-> item]
    ELSE [sentences |-> moveCard(cards, item.index, index),
          item |-> [item EXCEPT !.index = index]]

\* mutant of hover: the item's index is not updated after the move
hover_keepsItemIndex(item, index, hasRef, hoverClientY, height, cards) ==
    IF ~hasRef THEN [sentences |-> cards, item |-> item]
    ELSE IF item.index = index THEN [sentences |-> cards, item |-> item]
    ELSE IF item.index < index /\ 2 * hoverClientY < height
    THEN [sentences |-> cards, item |-> item]
    ELSE IF item.index > index /\ 2 * hoverClientY > height
    THEN [sentences |-> cards, item |-> item]
    ELSE [sentences |-> moveCard(cards, item.index, index), item |-> item]

\* hover(item, monitor) of the card rendered at `index`: the list and the
\* item after the call. hasRef is ref.current being set, height the card's
\* bottom - top, hoverClientY the pointer's offset from the card's top;
\* hoverMiddleY is height / 2, compared here after doubling both sides.
hover(item, index, hasRef, hoverClientY, height, cards) ==
    IF ~hasRef THEN [sentences |-> cards, item |-> item]
    ELSE IF item.index = index THEN [sentences |-> cards, item |-> item]
    ELSE IF item.index < index /\ 2 * hoverClientY < height
    THEN [sentences |-> cards, item |-> item]
    ELSE IF item.index > index /\ 2 * hoverClientY > height
    THEN [sentences |-> cards, item |-> item]
    ELSE [sentences |-> moveCard(cards, item.index, index),
          item |-> [item EXCEPT !.index = index]]

\* the words lex finds in the text of the input: the non-empty pieces
\* between blanks
lexWords(text) == SelectSeq(split(text, " "), LAMBDA w : w # << >>)

(***************************************************************************)
(* Sidebar specification: a playground session types into the textarea,    *)
(* clicks examples, Add, Remove and Reset, and drags cards. A drag is one  *)
(* pointer gesture: while it lasts only hover events and its end occur.    *)
(* The click handlers are modelled as the functions they are, whatever the *)
(* text and the list; the conditions under which their buttons are drawn   *)
(* are canAddCurrent, canDeleteCurrent and isModified.                     *)
(***************************************************************************)
MaxSentences == 4       \* entries of the sentence list (Add is not modelled beyond)

S_DogsRan == W_Dogs \o << " " >> \o W_ran
S_Dogs == W_Dogs
S_zzz == W_zzz

\* lists getSentencesFromTests can give: no test at all, or tests of which
\* two have the same sentence
InitialLists ==
    { << >>,
      << SentenceItem(S_DogsRan, "passed", 1), SentenceItem(S_Dogs, "failed", 2),
         SentenceItem(S_DogsRan, "failed", 3) >> }

InputTexts ==
    { << >>, << " " >>, S_DogsRan, << " " >> \o S_DogsRan \o << " " >>, S_Dogs, S_zzz }

CardHeights == { 2, 3 }                 \* bottom - top of a card
PointerOffsets == 0..3                  \* clientOffset.y - top of the card

InitList ==
    /\ ParseIdle /\ ResultIdle /\ QueryIdle /\ TaskIdle
    /\ input = << >>
    /\ initialSentences \in InitialLists
    /\ sentences = initialSentences
    /\ dragItem = NoDrag

\* onChange of the textarea: setInput(e.target.value)
SetInput(text) ==
    /\ ~dragItem.active
    /\ input' = text
    /\ ppc' = "setInput"
    /\ UNCHANGED <<queryVars, sentence, parser, outcome, probe, probeOutcome,
                   matchVars, sentences, initialSentences,
                   dragItem>>

\* handleExampleClick(sentence) of the card at position i
HandleExampleClick(i) ==
    /\ ~dragItem.active
    /\ i \in 1..Len(sentences)
    /\ \E r \in { parseEnglish(parser, lexWords(sentences[i].sentence)) } :
        /\ input' = sentences[i].sentence
        /\ sentence' = lexWords(sentences[i].sentence)
        /\ parser' = r.parser
        /\ outcome' = r.outcome
        /\ output' = outputAfterRender(r.value, showNulls)
        /\ rendered' = render(r.value, showNulls)
        /\ ppc' = "parseEnglish"
        /\ UNCHANGED <<queryVars, probe, probeOutcome, filters, received, matcher,
                       showNulls, task, todo, sentences, initialSentences, dragItem>>

\* onClick of "Add to List"
HandleAddExample ==
    /\ ~dragItem.active
    /\ Len(sentences) < MaxSentences
    /\ sentences' = handleAddExample(input, sentences, initialSentences)
    /\ ppc' = "handleAddExample"
    /\ UNCHANGED <<queryVars, sentence, parser, outcome, probe, probeOutcome,
                   matchVars, input, initialSentences, dragItem>>

\* onClick of "Remove"
HandleDeleteCurrentExample ==
    /\ ~dragItem.active
    /\ sentences' = handleDeleteCurrentExample(input, sentences)
    /\ ppc' = "handleDeleteCurrentExample"
    /\ UNCHANGED <<queryVars, sentence, parser, outcome, probe, probeOutcome,
                   matchVars, input, initialSentences, dragItem>>

\* onClick of "Reset"
HandleResetExamples ==
    /\ ~dragItem.active
    /\ sentences' = handleResetExamples(initialSentences)
    /\ ppc' = "handleResetExamples"
    /\ UNCHANGED <<queryVars, sentence, parser, outcome, probe, probeOutcome,
                   matchVars, input, initialSentences, dragItem>>

\* a drag of the card at position i begins: useDrag makes its item
BeginDrag(i) ==
    /\ ~dragItem.active
    /\ i \in 1..Len(sentences)
    /\ dragItem' = DragItem(sentences, i - 1)
    /\ ppc' = "beginDrag"
    /\ UNCHANGED <<queryVars, sentence, parser, outcome, probe, probeOutcome,
                   matchVars, input, sentences, initialSentences>>

\* the dragged card is over the card rendered at position i: its hover runs
Hover(i, hasRef, hoverClientY, height) ==
    /\ dragItem.active
    /\ i \in 1..Len(sentences)
    /\ hoverClientY <= height
    /\ \E r \in { hover(dragItem, i - 1, hasRef, hoverClientY, height, sentences) } :
        /\ sentences' = r.sentences
        /\ dragItem' = r.item
    /\ ppc' = "hover"
    /\ UNCHANGED <<queryVars, sentence, parser, outcome, probe, probeOutcome,
                   matchVars, input, initialSentences>>

\* the drag ends (drop or cancel)
EndDrag ==
    /\ dragItem.active
    /\ dragItem' = NoDrag
    /\ ppc' = "endDrag"
    /\ UNCHANGED <<queryVars, sentence, parser, outcome, probe, probeOutcome,
                   matchVars, input, sentences, initialSentences>>

NextList ==
    \/ \E text \in InputTexts : SetInput(text)
    \/ \E i \in 1..MaxSentences : HandleExampleClick(i)
    \/ HandleAddExample
    \/ HandleDeleteCurrentExample
    \/ HandleResetExamples
    \/ \E i \in 1..MaxSentences : BeginDrag(i)
    \/ \E i \in 1..MaxSentences, hasRef \in BOOLEAN,
          y \in PointerOffsets, height \in CardHeights : Hover(i, hasRef, y, height)
    \/ EndDrag

SpecList == InitList /\ [][NextList]_vars

(***************************************************************************)
(* Vocabulary of the claims about the sidebar                              *)
(***************************************************************************)
\* seq without its k-th entry (1-based)
Without(seq, k) == SubSeq(seq, 1, k - 1) \o SubSeq(seq, k + 1, Len(seq))

\* how often x occurs in seq
Count(seq, x) == Cardinality({ i \in 1..Len(seq) : seq[i] = x })

\* `after` is `before` with the entry at 0-based index d moved to index h:
\* same length, same entries as often, the moved entry at h, and the other
\* entries in the order they had
IsMoveOf(before, after, d, h) ==
    /\ Len(after) = Len(before)
    /\ \A i \in 1..Len(before) : Count(after, before[i]) = Count(before, before[i])
    /\ after[h + 1] = before[d + 1]
    /\ Without(after, h + 1) = Without(before, d + 1)

\* C21: moveCard(dragIndex, hoverIndex) with both indices in range yields a
\* permutation of the sentence list: same length, same entries, the entry
\* formerly at dragIndex now at hoverIndex, all others in their order. It
\* holds of every pair of indices of every list the playground reaches, and
\* of every change of the list a hover makes during a drag.
C21_MoveCardIsAPermutation ==
    /\ [](\A d \in 0..(Len(sentences) - 1), h \in 0..(Len(sentences) - 1) :
             IsMoveOf(sentences, moveCard(sentences, d, h), d, h))
    /\ [][(dragItem.active /\ dragItem'.active /\ sentences' # sentences) =>
             IsMoveOf(sentences, sentences', dragItem.index, dragItem'.index)]_vars

\* during a drag the first card of the initial three has been moved past
\* the other two
C21_Witness ==
    /\ ppc = "hover"
    /\ dragItem.active
    /\ Len(initialSentences) = 3
    /\ dragItem.index = 2
    /\ sentences = moveCard(initialSentences, 0, 2)
    /\ sentences[3] = initialSentences[1]
    /\ sentences[1] = initialSentences[2]
    /\ sentences[2] = initialSentences[3]

\* the position of entry x in seq (entries are distinct objects)
PositionOf(seq, x) == CHOOSE i \in 1..Len(seq) : seq[i] = x

\* `after` is `before` without the entries whose sentence is text: those
\* entries are gone, every other entry is there once, in the order it had
IsRemovalOf(before, after, text) ==
    /\ \A i \in 1..Len(after) : after[i].sentence # text
    /\ \A i \in 1..Len(before) :
          before[i].sentence # text => Count(after, before[i]) = 1
    /\ \A i \in 1..Len(after) : Count(before, after[i]) = 1
    /\ \A i \in 1..Len(after), j \in 1..Len(after) :
          i < j => PositionOf(before, after[i]) < PositionOf(before, after[j])

\* C22: Remove deletes from the sentence list every entry whose sentence
\* equals the trimmed input and keeps all other entries in their order; it
\* changes nothing when the trimmed input is empty or not in the list, and
\* it never changes the input text or the parse output.
C22_RemoveDeletesExactlyTheInput ==
    [][HandleDeleteCurrentExample =>
        /\ trim(input) # << >> => IsRemovalOf(sentences, sentences', trim(input))
        /\ (trim(input) = << >> \/ ~someSentenceIs(sentences, trim(input))) =>
               sentences' = sentences
        /\ input' = input
        /\ output' = output
        /\ rendered' = rendered]_vars

\* both entries "Dogs ran" of the initial three were removed with the input
\* " Dogs ran ", after the example had been parsed: the other entry, the
\* text and the parse output are still there
C22_Witness ==
    /\ ppc = "handleDeleteCurrentExample"
    /\ Len(initialSentences) = 3
    /\ sentences = << initialSentences[2] >>
    /\ input = << " " >> \o S_DogsRan \o << " " >>
    /\ output # << >>
    /\ ~dragItem.active

\* the list differs from the initial list in length or in the sentence at
\* some position
DiffersFromInitial ==
    \/ Len(sentences) # Len(initialSentences)
    \/ \E i \in 1..Len(sentences) :
          /\ i <= Len(initialSentences)
          /\ sentences[i].sentence # initialSentences[i].sentence

\* C23: Reset is offered (isModified) exactly when the current list differs
\* from the initial list in length or in the sentence at some position;
\* Reset restores the initial list, so after any sequence of Add, drag-move
\* and Remove followed by Reset the list is the initial list and Reset is
\* no longer offered.
C23_ResetOfferedIffModifiedAndRestores ==
    /\ [](isModified(sentences, initialSentences) <=> DiffersFromInitial)
    /\ [][HandleResetExamples =>
             /\ sentences' = initialSentences
             /\ ~isModified(sentences', initialSentences)]_vars

\* Reset has just restored the three initial entries
C23_Witness ==
    /\ ppc = "handleResetExamples"
    /\ Len(initialSentences) = 3
    /\ sentences = initialSentences
    /\ ~isModified(sentences, initialSentences)

\* Reset is offered for a list of the initial length: a card was moved
C23_OfferedAfterMoveWitness ==
    /\ ppc = "hover"
    /\ Len(sentences) = Len(initialSentences)
    /\ isModified(sentences, initialSentences)

\* the two cards with the same sentence have changed places: the list has
\* the initial sentences at every position and Reset is not offered
C23_SameSentencesWitness ==
    /\ ppc = "hover"
    /\ sentences # initialSentences
    /\ ~DiffersFromInitial
    /\ ~isModified(sentences, initialSentences)

\* the trimmed input is the sentence of some entry of the list
TrimmedInputInList ==
    \E i \in 1..Len(sentences) : sentences[i].sentence = trim(input)

\* C24: in every reachable playground state 'Add' is offered iff the trimmed
\* input is non-empty and not in the sentence list, and 'Remove' iff the
\* trimmed input is non-empty and in the list; the two are never offered
\* together, and neither is offered for blank input.
C24_AddAndRemoveAreExclusive ==
    /\ canAddCurrent(input, sentences) <=> (trim(input) # << >> /\ ~TrimmedInputInList)
    /\ canDeleteCurrent(input, sentences) <=> (trim(input) # << >> /\ TrimmedInputInList)
    /\ ~(canAddCurrent(input, sentences) /\ canDeleteCurrent(input, sentences))
    /\ trim(input) = << >> =>
          ~canAddCurrent(input, sentences) /\ ~canDeleteCurrent(input, sentences)

\* the text " Dogs ran " was typed while "Dogs ran" is in the list: Remove
\* is offered and Add is not
C24_Witness ==
    /\ ppc = "setInput"
    /\ input = << " " >> \o S_DogsRan \o << " " >>
    /\ TrimmedInputInList
    /\ canDeleteCurrent(input, sentences)
    /\ ~canAddCurrent(input, sentences)

\* "zzz" was typed and is not in the list: Add is offered and Remove is not
C24_AddOfferedWitness ==
    /\ ppc = "setInput"
    /\ input = S_zzz
    /\ canAddCurrent(input, sentences)
    /\ ~canDeleteCurrent(input, sentences)

\* a blank was typed: neither is offered
C24_BlankWitness ==
    /\ ppc = "setInput"
    /\ input = << " " >>
    /\ ~canAddCurrent(input, sentences)
    /\ ~canDeleteCurrent(input, sentences)

\* the pointer, at offset y from the top of a card of the given height, has
\* reached the card's vertical midpoint in the direction of the drag from
\* index d to index h: at or below it going down, at or above it going up
ReachedMidpoint(d, h, y, height) ==
    /\ d < h => 2 * y >= height
    /\ d > h => 2 * y <= height

\* C25: while dragging, hovering over a card calls moveCard(dragIndex,
\* hoverIndex) only when the two indices differ and the pointer has reached
\* the hovered card's vertical midpoint in the drag direction; in every
\* other case the list and the drag item's index are left unchanged. Stated
\* of every hover event possible in a state, and of every hover step taken.
C25_HoverMovesOnlyPastTheMidpoint ==
    /\ [](dragItem.active =>
            \A h \in 0..(Len(sentences) - 1), hasRef \in BOOLEAN,
               height \in CardHeights, y \in PointerOffsets :
                LET r == hover(dragItem, h, hasRef, y, height, sentences)
                    called == r.sentences # sentences \/ r.item # dragItem
                    mayCall == /\ dragItem.index # h
                               /\ ReachedMidpoint(dragItem.index, h, y, height)
                IN  /\ called => mayCall
                    /\ called => r.sentences = moveCard(sentences, dragItem.index, h)
                    /\ ~mayCall => (r.sentences = sentences /\ r.item = dragItem)
                    /\ (mayCall /\ hasRef) => called)
    /\ [][(ppc' = "hover" /\ dragItem.active /\ sentences' = sentences) =>
             dragItem' = dragItem]_vars

\* a drag of the first of three cards has had a hover that moved it to the
\* second place
C25_Witness ==
    /\ ppc = "hover"
    /\ dragItem.active
    /\ Len(initialSentences) = 3
    /\ dragItem.card = initialSentences[1].uid
    /\ dragItem.index = 1
    /\ sentences = moveCard(initialSentences, 0, 1)

\* a hover has left the list and the item as they were; in this state the
\* pointer in the upper half of the next card would again move nothing and
\* the pointer on its midpoint would move the card
C25_NoMoveWitness ==
    /\ ppc = "hover"
    /\ dragItem.active
    /\ Len(initialSentences) = 3
    /\ sentences = initialSentences
    /\ dragItem = DragItem(initialSentences, 0)
    /\ hover(dragItem, 1, TRUE, 0, 2, sentences).sentences = sentences
    /\ hover(dragItem, 1, TRUE, 1, 2, sentences).sentences # sentences

\* the position (0-based) of the dragged card in the list
DraggedCardIndex(cards) ==
    (CHOOSE i \in 1..Len(cards) : cards[i].uid = dragItem.card) - 1

\* C26: during a drag, after every hover event the drag item's index equals
\* the current position of the dragged card in the sentence list, so every
\* moveCard call issued by hover moves the dragged card and no other card.
C26_ItemIndexTracksTheDraggedCard ==
    /\ [](dragItem.active =>
            /\ dragItem.index \in 0..(Len(sentences) - 1)
            /\ sentences[dragItem.index + 1].uid = dragItem.card
            /\ sentences[dragItem.index + 1].sentence = dragItem.id)
    /\ [][(ppc' = "hover" /\ dragItem.active /\ sentences' # sentences) =>
             /\ dragItem'.card = dragItem.card
             /\ IsMoveOf(sentences, sentences',
                         DraggedCardIndex(sentences), DraggedCardIndex(sentences'))
             /\ dragItem'.index = DraggedCardIndex(sentences')]_vars

\* the last of three cards has been dragged to the front, past two cards,
\* and the item's index is where the card is
C26_Witness ==
    /\ ppc = "hover"
    /\ dragItem.active
    /\ Len(initialSentences) = 3
    /\ dragItem.card = initialSentences[3].uid
    /\ sentences = moveCard(initialSentences, 2, 0)
    /\ dragItem.index = 0
    /\ sentences[1] = initialSentences[3]

\* the assertion the last matcher call recorded
LastAssertion == task.meta.assertions[Len(task.meta.assertions)]

\* a matcher call has returned in a test that has a task
MatcherRecorded == ppc = "matcher" /\ task.has /\ task.meta.assertions # << >>

\* C27: for every matcher call, plain or negated with .not, the `passed`
\* flag of the recorded assertion equals the actual outcome of the
\* assertion (pass when not negated, not pass when negated), also when the
\* sentence has zero parses.
C27_PassedFlagIsTheOutcome ==
    MatcherRecorded =>
        LastAssertion.passed = (IF matcher.isNot THEN ~matcher.pass ELSE matcher.pass)

\* C27, the part that holds: the flag is the outcome for toBeGrammatical
\* always, and for the other two matchers when the result has a tree or the
\* call is not negated
C27_PassedFlagIsTheOutcomeUnlessNegatedNoParse ==
    (MatcherRecorded
       /\ (matcher.name = "toBeGrammatical" \/ received.trees # << >> \/ ~matcher.isNot)) =>
        LastAssertion.passed = (IF matcher.isNot THEN ~matcher.pass ELSE matcher.pass)

\* expect(result).not.toHaveConstituent(...) on a result without trees: the
\* matcher returned pass = false, so the negated assertion holds, and the
\* record says passed = false
C27_NegatedNoParseRecordsFailure ==
    /\ MatcherRecorded
    /\ matcher.name = "toHaveConstituent"
    /\ matcher.isNot
    /\ received.trees = << >>
    /\ ~matcher.pass
    /\ ~LastAssertion.passed
    /\ LastAssertion.noParse

(***************************************************************************)
(* Constituency queries alone: every tree of the constituency universe,    *)
(* queried with every triple of word references.                           *)
(***************************************************************************)
InitSymmetry ==
    /\ tree \in ConstituencyTrees
    /\ call = NoCall
    /\ ret = FALSE
    /\ pc = "idle"
    /\ ParseIdle
    /\ MatchIdle
    /\ TaskIdle

NextSymmetry ==
    \/ \E w1 \in ConstituencyRefs, w2 \in ConstituencyRefs, excl \in ConstituencyRefs :
          CallCheckConstituency(w1, w2, excl)
    \/ Return

SpecSymmetry == InitSymmetry /\ [][NextSymmetry]_vars

(***************************************************************************)
(* C28: checkConstituency is symmetric in its two constituent words: for   *)
(* every tree and excluded word, the result of the call with (w1, w2) is   *)
(* the result of the call with (w2, w1).                                   *)
(***************************************************************************)
C28_ConstituencyIsSymmetric ==
    ConstituencyDone =>
        ret = checkConstituency(tree, call.w2, call.w1, call.excl)

\* a true answer for two different words, the first of which occurs twice
\* and forms the constituent only through its second occurrence
C28_Witness ==
    /\ ConstituencyDone
    /\ ret = TRUE
    /\ call.w1 = << "a" >>
    /\ call.w2 = << "b" >>
    /\ call.excl = << "a", ":", "0" >>
    /\ Len(filterLeaves(findLeaves(tree), parseWordRef(call.w1))) = 2

\* a false answer for two different words that both occur in the tree
C28_FalseWitness ==
    /\ ConstituencyDone
    /\ ret = FALSE
    /\ call.w1 # call.w2
    /\ Len(filterLeaves(findLeaves(tree), parseWordRef(call.w1))) > 0
    /\ Len(filterLeaves(findLeaves(tree), parseWordRef(call.w2))) > 0
    /\ Len(filterLeaves(findLeaves(tree), parseWordRef(call.excl))) > 0

====
